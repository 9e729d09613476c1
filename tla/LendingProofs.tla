--------------------------- MODULE LendingProofs ---------------------------
(***************************************************************************)
(* Lending for any users, assets, amounts, rates and interleaving of       *)
(* submits, bad debt and ledgers. The invariant says of the copy a submit  *)
(* works on what it says of the reserves in storage, so that whatever      *)
(* Commit writes back satisfies it again. The lemmas on the conversions    *)
(* and the accrual of a reserve come first.                                *)
(***************************************************************************)
EXTENDS Lending, ArithmeticProofs

\* A reserve in use: a reserve whose rates are positive.
Used == {r \in Reserves : r.b_rate > 0 /\ r.d_rate > 0}

\* What the reserve owes beyond its loans: to suppliers and the backstop.
Owed(r) == TotalSupply(r) + r.backstop_credit - TotalLiabilities(r)

\* The fields of a used reserve, for the provers.
LEMMA UsedFields ==
    ASSUME NEW r \in Used
    PROVE  /\ r.b_rate \in Nat \ {0} /\ r.d_rate \in Nat \ {0}
           /\ r.b_supply \in Nat /\ r.d_supply \in Nat /\ r.backstop_credit \in Nat
           /\ r = [b_rate |-> r.b_rate, d_rate |-> r.d_rate, b_supply |-> r.b_supply,
                   d_supply |-> r.d_supply, backstop_credit |-> r.backstop_credit]
  BY DEF Used, Reserves

\* What suppliers are owed and what borrowers owe are natural numbers.
LEMMA TotalsNat ==
    ASSUME NEW r \in Used
    PROVE  TotalSupply(r) \in Nat /\ TotalLiabilities(r) \in Nat
  BY UsedFields, PoolReserveAssumption, MulFloorBounds, MulCeilBounds
     DEF TotalSupply, TotalLiabilities, ToAssetFromB, ToAssetFromD
-----------------------------------------------------------------------------
\* A deposit mints no more b tokens than it is worth.
LEMMA DepositCovered ==
    ASSUME NEW r \in Used, NEW amount \in Nat,
           NEW new, new = [r EXCEPT !.b_supply = @ + ToBTokenDown(r, amount)]
    PROVE  ToBTokenDown(r, amount) \in Nat /\ Owed(new) <= Owed(r) + amount /\ new \in Used
  <1> DEFINE m == ToBTokenDown(r, amount)
  <1>1. m \in Nat /\ m * r.b_rate <= amount * Scalar9
    BY UsedFields, PoolReserveAssumption, DivFloorBounds DEF ToBTokenDown
  <1> HIDE DEF m
  <1>2. /\ new.b_supply = r.b_supply + m /\ new.b_rate = r.b_rate
        /\ new.d_supply = r.d_supply /\ new.d_rate = r.d_rate
        /\ new.backstop_credit = r.backstop_credit
        /\ new \in Used
    BY <1>1, UsedFields DEF m, Used, Reserves
  <1>3. TotalSupply(new) <= TotalSupply(r) + amount
    BY <1>1, <1>2, UsedFields, PoolReserveAssumption, FloorAdds
       DEF TotalSupply, ToAssetFromB
  <1>4. TotalLiabilities(new) = TotalLiabilities(r)
    BY <1>2 DEF TotalLiabilities, ToAssetFromD
  <1> QED BY <1>1, <1>2, <1>3, <1>4, TotalsNat, UsedFields DEF Owed, m

\* Burning b tokens worth at least n takes n off what is owed.
LEMMA BurnCovered ==
    ASSUME NEW r \in Used, NEW m \in Nat, NEW n \in Nat, m <= r.b_supply,
           n * Scalar9 <= m * r.b_rate,
           NEW new, new = [r EXCEPT !.b_supply = @ - m]
    PROVE  Owed(new) + n <= Owed(r) /\ new \in Used
  <1>1. /\ new.b_supply = r.b_supply - m /\ new.b_rate = r.b_rate
        /\ new.d_supply = r.d_supply /\ new.d_rate = r.d_rate
        /\ new.backstop_credit = r.backstop_credit
        /\ new \in Used
    BY UsedFields DEF Used, Reserves
  <1>2. TotalSupply(new) + n <= TotalSupply(r)
    BY <1>1, UsedFields, PoolReserveAssumption, FloorTakes DEF TotalSupply, ToAssetFromB
  <1>3. TotalLiabilities(new) = TotalLiabilities(r)
    BY <1>1 DEF TotalLiabilities, ToAssetFromD
  <1> QED BY <1>1, <1>2, <1>3, TotalsNat, UsedFields DEF Owed

\* A withdrawal, of an amount or of all a holder has, is paid by what it burns.
LEMMA WithdrawalPaid ==
    ASSUME NEW r \in Used, NEW amount \in Nat
    PROVE  /\ ToBTokenUp(r, amount) \in Nat
           /\ amount * Scalar9 <= ToBTokenUp(r, amount) * r.b_rate
  BY UsedFields, PoolReserveAssumption, DivCeilBounds DEF ToBTokenUp
\* All that a holder has is worth no more than what is burnt for it.
LEMMA RedemptionPaid ==
    ASSUME NEW r \in Used, NEW held \in Nat
    PROVE  /\ ToAssetFromB(r, held) \in Nat
           /\ ToAssetFromB(r, held) * Scalar9 <= held * r.b_rate
  BY UsedFields, PoolReserveAssumption, MulFloorBounds DEF ToAssetFromB

\* A loan mints d tokens worth at least what is lent.
LEMMA LoanCovered ==
    ASSUME NEW r \in Used, NEW amount \in Nat,
           NEW new, new = [r EXCEPT !.d_supply = @ + ToDTokenUp(r, amount)]
    PROVE  ToDTokenUp(r, amount) \in Nat /\ Owed(new) + amount <= Owed(r) /\ new \in Used
  <1> DEFINE m == ToDTokenUp(r, amount)
  <1>1. m \in Nat /\ amount * Scalar9 <= m * r.d_rate
    BY UsedFields, PoolReserveAssumption, DivCeilBounds DEF ToDTokenUp
  <1> HIDE DEF m
  <1>2. /\ new.b_supply = r.b_supply /\ new.b_rate = r.b_rate
        /\ new.d_supply = r.d_supply + m /\ new.d_rate = r.d_rate
        /\ new.backstop_credit = r.backstop_credit
        /\ new \in Used
    BY <1>1, UsedFields DEF m, Used, Reserves
  <1>3. TotalLiabilities(r) + amount <= TotalLiabilities(new)
    BY <1>1, <1>2, UsedFields, PoolReserveAssumption, CeilAdds
       DEF TotalLiabilities, ToAssetFromD
  <1>4. TotalSupply(new) = TotalSupply(r)
    BY <1>2 DEF TotalSupply, ToAssetFromB
  <1> QED BY <1>1, <1>2, <1>3, <1>4, TotalsNat, UsedFields DEF Owed, m

\* Burning d tokens worth at most n adds at most n to what is owed.
LEMMA RepaymentCovered ==
    ASSUME NEW r \in Used, NEW m \in Nat, NEW n \in Nat, m <= r.d_supply,
           m * r.d_rate <= n * Scalar9,
           NEW new, new = [r EXCEPT !.d_supply = @ - m]
    PROVE  Owed(new) <= Owed(r) + n /\ new \in Used
  <1>1. /\ new.b_supply = r.b_supply /\ new.b_rate = r.b_rate
        /\ new.d_supply = r.d_supply - m /\ new.d_rate = r.d_rate
        /\ new.backstop_credit = r.backstop_credit
        /\ new \in Used
    BY UsedFields DEF Used, Reserves
  <1>2. TotalLiabilities(r) <= TotalLiabilities(new) + n
    BY <1>1, UsedFields, PoolReserveAssumption, CeilTakes DEF TotalLiabilities, ToAssetFromD
  <1>3. TotalSupply(new) = TotalSupply(r)
    BY <1>1 DEF TotalSupply, ToAssetFromB
  <1> QED BY <1>1, <1>2, <1>3, TotalsNat, UsedFields DEF Owed
\* A repayment burns d tokens worth no more than what is repaid,
LEMMA RepaymentPaid ==
    ASSUME NEW r \in Used, NEW amount \in Nat
    PROVE  /\ ToDTokenDown(r, amount) \in Nat
           /\ ToDTokenDown(r, amount) * r.d_rate <= amount * Scalar9
  BY UsedFields, PoolReserveAssumption, DivFloorBounds DEF ToDTokenDown
\* and a debt repaid in full is worth no more than what is asked for it.
LEMMA DebtPaid ==
    ASSUME NEW r \in Used, NEW owed \in Nat
    PROVE  /\ ToAssetFromD(r, owed) \in Nat
           /\ owed * r.d_rate <= ToAssetFromD(r, owed) * Scalar9
  BY UsedFields, PoolReserveAssumption, MulCeilBounds DEF ToAssetFromD
-----------------------------------------------------------------------------
\* An accrual of at least one does not lower the d rate.
LEMMA DRateGrows ==
    ASSUME NEW r \in Used, NEW factor \in Nat, factor >= Scalar9
    PROVE  /\ MulCeil(factor, r.d_rate, Scalar9) \in Nat
           /\ MulCeil(factor, r.d_rate, Scalar9) >= r.d_rate
  <1>1. MulCeil(Scalar9, r.d_rate, Scalar9) = r.d_rate
    BY WholeShare, UsedFields, PoolReserveAssumption
  <1>2. /\ MulCeil(factor, r.d_rate, Scalar9) \in Nat
        /\ MulCeil(Scalar9, r.d_rate, Scalar9) <= MulCeil(factor, r.d_rate, Scalar9)
    BY MulCeilBounds, MulCeilMono, UsedFields, PoolReserveAssumption
  <1> QED BY <1>1, <1>2, UsedFields

\* Interest is not negative; the backstop's share is less than a positive interest.
LEMMA InterestNat ==
    ASSUME NEW r \in Used, NEW factor \in Nat, factor >= Scalar9
    PROVE  /\ AccruedInterest(r, factor) \in Nat
           /\ MulCeil(r.d_supply, MulCeil(factor, r.d_rate, Scalar9), Scalar9)
                = TotalLiabilities(r) + AccruedInterest(r, factor)
  <1> DEFINE new == MulCeil(factor, r.d_rate, Scalar9)
             after == MulCeil(r.d_supply, new, Scalar9)
             before == MulCeil(r.d_supply, r.d_rate, Scalar9)
  <1>1. new \in Nat /\ new >= r.d_rate
    BY DRateGrows
  <1> HIDE DEF new
  <1>2. after = MulCeil(new, r.d_supply, Scalar9) /\ before = MulCeil(r.d_rate, r.d_supply, Scalar9)
    BY <1>1, MulCeilCommutes, UsedFields, PoolReserveAssumption
  <1>3. after \in Nat /\ before \in Nat /\ before <= after
    BY <1>1, <1>2, MulCeilMono, MulCeilBounds, UsedFields, PoolReserveAssumption
  <1>4. TotalLiabilities(r) = before
    BY DEF TotalLiabilities, ToAssetFromD
  <1>5. AccruedInterest(r, factor) = after - before
    BY <1>4 DEF AccruedInterest, new
  <1> HIDE DEF after, before
  <1>6. after = before + (after - before) /\ after - before \in Nat
    BY <1>3
  <1> QED BY <1>4, <1>5, <1>6 DEF after, new
\* The interest is split between suppliers and backstop, and suppliers get some.
LEMMA SharesSplit ==
    ASSUME NEW interest \in Nat
    PROVE  /\ BackstopShare(interest) \in Nat /\ SuppliersShare(interest) \in Nat
           /\ BackstopShare(interest) + SuppliersShare(interest) = interest
           /\ interest > 0 => SuppliersShare(interest) > 0
  <1> DEFINE share == BackstopShare(interest)
  <1>1. BstopRate \in Nat /\ BstopRate < Scalar7 /\ Scalar7 \in Nat \ {0}
    BY PoolReserveAssumption, PoolConstantsAssumption
  <1>2. share \in Nat /\ share * Scalar7 <= interest * BstopRate
    BY <1>1, MulFloorBounds DEF BackstopShare
  <1> HIDE DEF share
  <1>3. share * Scalar7 < (interest + 1) * Scalar7
    <2>1. interest * BstopRate <= interest * Scalar7
      BY <1>1, ProductGrows
    <2>2. /\ (interest + 1) * Scalar7 = interest * Scalar7 + Scalar7
          /\ interest * Scalar7 \in Nat /\ interest * BstopRate \in Nat
          /\ share * Scalar7 \in Nat
      BY <1>1, <1>2
    <2> QED BY <1>1, <1>2, <2>1, <2>2
  <1>4. share < interest + 1
    BY <1>1, <1>2, <1>3, ProductCancels
  <1>5. ASSUME interest > 0 PROVE share < interest
    <2>1. interest * BstopRate < interest * Scalar7
      <3>1. interest * (BstopRate + 1) <= interest * Scalar7
        BY <1>1, ProductGrows
      <3>2. /\ interest * (BstopRate + 1) = interest * BstopRate + interest
            /\ interest * BstopRate \in Nat /\ interest * Scalar7 \in Nat
        BY <1>1
      <3> QED BY <1>5, <3>1, <3>2
    <2>2. share * Scalar7 < interest * Scalar7
      <3>1. share * Scalar7 \in Nat /\ interest * BstopRate \in Nat /\ interest * Scalar7 \in Nat
        BY <1>1, <1>2
      <3> QED BY <1>2, <2>1, <3>1
    <2> QED BY <1>1, <1>2, <2>2, ProductCancels
  <1> QED BY <1>2, <1>4, <1>5 DEF SuppliersShare, share

\* A gain for the suppliers raises the b rate, and their claim by no more than it.
LEMMA BRateGrows ==
    ASSUME NEW r \in Used, r.b_supply # 0, NEW gained \in Nat, gained > 0
    PROVE  LET b_rate == BRateAfter(r, gained) IN
           /\ b_rate \in Nat /\ b_rate >= r.b_rate
           /\ MulFloor(r.b_supply, b_rate, Scalar9) <= TotalSupply(r) + gained
  <1> DEFINE s == TotalSupply(r)
             b == r.b_supply
             q == BRateAfter(r, gained)
             t == MulFloor(b, q, Scalar9)
  <1>1. b \in Nat \ {0} /\ s \in Nat /\ s + gained \in Nat
        /\ Scalar9 \in Nat \ {0} /\ r.b_rate \in Nat
    BY UsedFields, TotalsNat, PoolReserveAssumption
  <1>2. b * r.b_rate < (s + 1) * Scalar9
    BY <1>1, MulFloorBounds DEF TotalSupply, ToAssetFromB
  <1>3. q \in Nat /\ q * b <= (s + gained) * Scalar9 /\ (s + gained) * Scalar9 < (q + 1) * b
    BY <1>1, DivFloorBounds DEF BRateAfter
  <1> HIDE DEF s, b, q
  <1>4. t \in Nat /\ t * Scalar9 <= b * q
    BY <1>1, <1>3, MulFloorBounds
  <1> HIDE DEF t
  <1>5. r.b_rate <= q
    <2>1. (s + 1) * Scalar9 <= (s + gained) * Scalar9
      BY <1>1, ProductGrows
    <2>2. /\ b * r.b_rate = r.b_rate * b /\ r.b_rate * b \in Nat
          /\ (s + 1) * Scalar9 \in Nat /\ (s + gained) * Scalar9 \in Nat
      BY <1>1
    <2>3. r.b_rate * b <= (s + gained) * Scalar9
      BY <1>2, <2>1, <2>2
    <2> QED BY <1>1, <1>3, <2>2, <2>3, FloorLargest
  <1>6. t <= s + gained
    <2>1. b * q = q * b /\ q * b \in Nat /\ t * Scalar9 \in Nat
          /\ (s + gained) * Scalar9 \in Nat
          /\ (s + gained + 1) * Scalar9 = (s + gained) * Scalar9 + Scalar9
      BY <1>1, <1>3, <1>4
    <2>2. t * Scalar9 < (s + gained + 1) * Scalar9
      BY <1>1, <1>3, <1>4, <2>1
    <2>3. t < s + gained + 1
      BY <1>1, <1>4, <2>2, ProductCancels
    <2> QED BY <1>1, <1>4, <2>3
  <1> QED BY <1>3, <1>5, <1>6 DEF s, b, q, t

\* Loading a reserve lowers neither rate, leaves the supplies, and adds no more to
\* the claims of suppliers and backstop than to the debt of the borrowers.
THEOREM AccrualCovered ==
    ASSUME NEW r \in Used, NEW factor \in Nat, factor >= Scalar9
    PROVE  LET new == Accrued(r, factor) IN
           /\ new \in Used
           /\ new.d_rate >= r.d_rate /\ new.b_rate >= r.b_rate
           /\ new.b_supply = r.b_supply /\ new.d_supply = r.d_supply
           /\ Owed(new) <= Owed(r)
  <1> DEFINE interest == AccruedInterest(r, factor)
             gained == SuppliersShare(interest)
             share == BackstopShare(interest)
             d_rate == MulCeil(factor, r.d_rate, Scalar9)
             b_rate == BRateAfter(r, gained)
             raised == [r EXCEPT !.d_rate = d_rate]
             shared == [r EXCEPT !.d_rate = d_rate, !.b_rate = b_rate,
                                 !.backstop_credit = @ + share]
  <1>1. d_rate \in Nat /\ d_rate >= r.d_rate /\ d_rate > 0
    BY DRateGrows, UsedFields
  <1>2. interest \in Nat /\ MulCeil(r.d_supply, d_rate, Scalar9) = TotalLiabilities(r) + interest
    BY InterestNat
  <1>3. /\ gained \in Nat /\ share \in Nat /\ share + gained = interest
        /\ interest > 0 => gained > 0
    <2> HIDE DEF interest
    <2> QED BY <1>2, SharesSplit
  <1> HIDE DEF interest, gained, share, d_rate, b_rate
  <1>4. CASE Accrued(r, factor) = r
    BY <1>4, UsedFields, TotalsNat DEF Owed
  <1>5. CASE interest = 0 /\ Accrued(r, factor) = raised
    <2>1. /\ raised \in Used /\ raised.d_rate = d_rate /\ raised.b_rate = r.b_rate
          /\ raised.b_supply = r.b_supply /\ raised.d_supply = r.d_supply
          /\ raised.backstop_credit = r.backstop_credit
      BY <1>1, UsedFields DEF Used, Reserves
    <2> HIDE DEF raised
    <2>2. TotalLiabilities(raised) = TotalLiabilities(r) /\ TotalSupply(raised) = TotalSupply(r)
      BY <1>2, <1>5, <2>1, TotalsNat
         DEF TotalLiabilities, TotalSupply, ToAssetFromD, ToAssetFromB
    <2>3. Owed(raised) = Owed(r)
      BY <2>1, <2>2 DEF Owed
    <2>4. Owed(r) \in Int /\ r.b_rate \in Int
      BY TotalsNat, UsedFields DEF Owed
    <2> QED BY <1>1, <1>5, <2>1, <2>3, <2>4
  <1>6. CASE interest # 0 /\ r.b_supply # 0 /\ Accrued(r, factor) = shared
    <2>1. gained > 0
      <3> HIDE DEF shared, raised
      <3> QED BY <1>2, <1>3, <1>6
    <2>2. /\ b_rate \in Nat /\ b_rate >= r.b_rate /\ b_rate > 0
          /\ MulFloor(r.b_supply, b_rate, Scalar9) <= TotalSupply(r) + gained
      <3> HIDE DEF shared, raised
      <3>1. b_rate \in Nat /\ b_rate >= r.b_rate
            /\ MulFloor(r.b_supply, b_rate, Scalar9) <= TotalSupply(r) + gained
        BY <1>3, <1>6, <2>1, BRateGrows DEF b_rate
      <3> QED BY <3>1, UsedFields
    <2>3. /\ shared \in Used /\ shared.d_rate = d_rate /\ shared.b_rate = b_rate
          /\ shared.b_supply = r.b_supply /\ shared.d_supply = r.d_supply
          /\ shared.backstop_credit = r.backstop_credit + share
      <3> DEFINE credit == r.backstop_credit + share
      <3>1. credit \in Nat
        BY <1>3, UsedFields
      <3>2. shared = [r EXCEPT !.d_rate = d_rate, !.b_rate = b_rate,
                               !.backstop_credit = credit]
        BY UsedFields
      <3> HIDE DEF credit, shared, raised
      <3>3. /\ shared \in Used /\ shared.d_rate = d_rate /\ shared.b_rate = b_rate
            /\ shared.b_supply = r.b_supply /\ shared.d_supply = r.d_supply
            /\ shared.backstop_credit = credit
        BY <1>1, <2>2, <3>1, <3>2, UsedFields DEF Used, Reserves
      <3> QED BY <3>3 DEF credit
    <2> HIDE DEF shared, raised
    <2>4. TotalLiabilities(shared) = TotalLiabilities(r) + interest
      BY <1>2, <2>3 DEF TotalLiabilities, ToAssetFromD
    <2>5. TotalSupply(shared) <= TotalSupply(r) + gained
      BY <2>2, <2>3 DEF TotalSupply, ToAssetFromB
    <2>6. Owed(shared) <= Owed(r)
      BY <1>2, <1>3, <2>3, <2>4, <2>5, TotalsNat, UsedFields DEF Owed
    <2> QED BY <1>1, <1>6, <2>2, <2>3, <2>6
  <1>7. \/ Accrued(r, factor) = r
        \/ interest = 0 /\ Accrued(r, factor) = raised
        \/ interest # 0 /\ r.b_supply # 0 /\ Accrued(r, factor) = shared
    BY DEF Accrued, interest, gained, share, d_rate, b_rate
  <1> QED BY <1>4, <1>5, <1>6, <1>7
-----------------------------------------------------------------------------
\* What the backstop asks of a status that is not the admin's is one of its own.
LEMMA UpdatedStatusType ==
    ASSUME NEW s \in Statuses \ {4, 6}, NEW b
    PROVE  UpdatedStatus(s, b) \in {0, 1, 2, 3, 5}
  BY DEF UpdatedStatus, Statuses

\* Updates, the admin and the backstop keep the types.
LEMMA StatusTypeStep == StatusTypeOK /\ [StatusNext]_statusVars => StatusTypeOK'
  <1> SUFFICES ASSUME StatusTypeOK, [StatusNext]_statusVars PROVE StatusTypeOK'
    OBVIOUS
  <1> USE PoolStatusAssumption DEF StatusTypeOK
  <1>1. CASE UpdateStatus
    BY <1>1, UpdatedStatusType DEF UpdateStatus, Statuses
  <1>2. ASSUME NEW s \in StatusArguments, SetStatus(s) PROVE StatusTypeOK'
    BY <1>2 DEF SetStatus, AdminMaySet, Statuses
  <1>3. ASSUME NEW b \in BackstopStates, BackstopChanges(b) PROVE StatusTypeOK'
    BY <1>3 DEF BackstopChanges
  <1>4. CASE UNCHANGED statusVars
    BY <1>4 DEF statusVars
  <1> QED BY <1>1, <1>2, <1>3, <1>4 DEF StatusNext
-----------------------------------------------------------------------------
Transactions ==
    [from : Users, res : [Assets -> Used], stored : SUBSET Assets,
     holders : [Holders -> PositionsType], held : [Assets -> Nat],
     sent : [Assets -> Nat], due : [Assets -> Nat],
     check_health : BOOLEAN, count : 0..MaxRequests]

Typed ==
    /\ StatusTypeOK
    /\ reserve \in [Assets -> Used]
    /\ accrual \in [Assets -> Accruals]
    /\ positions \in [Holders -> PositionsType]
    /\ live \in BOOLEAN
    /\ balance \in [Assets -> Nat] /\ unpaid \in [Assets -> Nat]
    /\ undelivered \in [Assets -> Nat]
    /\ tx # NoTx => tx \in Transactions

\* The supplies of a reserve are what the holders of positions p have together.
Matches(r, p, a) == r.b_supply = Supplied(p, a) /\ r.d_supply = Owing(p, a)

\* The tokens settled cover what a reserve owes.
Sound(a) == Matches(reserve[a], positions, a) /\ Owed(reserve[a]) <= Settled(a)

\* So do, at any point of a submit, those of its copy, with the transfers to come.
CopySound(a) ==
    /\ Matches(tx.res[a], tx.holders, a)
    /\ Owed(tx.res[a]) <= Settled(a) + tx.sent[a] - tx.due[a]

\* The copy of a reserve has the rates it was loaded with and no larger supplies
\* than the pool's status lets it grow to; until it is stored it is as loaded.
CopyLoaded(a) ==
    /\ tx.res[a].b_rate = Load(a).b_rate /\ tx.res[a].d_rate = Load(a).d_rate
    /\ ~MayBorrow(status) => tx.res[a].d_supply <= reserve[a].d_supply
    /\ ~MaySupply(status) => tx.res[a].b_supply <= reserve[a].b_supply
    /\ a \notin tx.stored => tx.res[a] = Load(a) /\ tx.sent[a] = 0 /\ tx.due[a] = 0

\* The requests so far have not gained from more than the transfers to come.
CopyFair(a) ==
    Worth(tx.holders[tx.from], a, tx.res[a]) - Worth(positions[tx.from], a, Load(a))
      <= tx.sent[a] - tx.due[a]

CopyKept ==
    tx # NoTx => /\ tx.held = balance
                 /\ \A a \in Assets : CopySound(a) /\ CopyLoaded(a) /\ CopyFair(a)

IInv == Typed /\ CopyKept /\ \A a \in Assets : Sound(a)
-----------------------------------------------------------------------------
\* There are finitely many holders of positions.
LEMMA HoldersFinite == IsFiniteSet(Holders)
  BY LendingAssumption, FS_AddElement DEF Holders

\* Loading a reserve keeps it covered, and its supplies; its rates do not fall.
LEMMA LoadKeeps ==
    ASSUME Typed, NEW a \in Assets
    PROVE  /\ Load(a) \in Used
           /\ Load(a).d_rate >= reserve[a].d_rate /\ Load(a).b_rate >= reserve[a].b_rate
           /\ Load(a).b_supply = reserve[a].b_supply
           /\ Load(a).d_supply = reserve[a].d_supply
           /\ Owed(Load(a)) <= Owed(reserve[a])
  <1>1. reserve[a] \in Used /\ accrual[a] \in Nat /\ accrual[a] >= Scalar9
    BY LendingAssumption DEF Typed
  <1> QED BY <1>1, AccrualCovered DEF Load

\* What is owed is an integer.
LEMMA OwedInt == \A r \in Used : Owed(r) \in Int
  BY TotalsNat, UsedFields DEF Owed
\* So is what positions are worth.
LEMMA WorthInt ==
    ASSUME NEW r \in Used, NEW p \in PositionsType, NEW a \in Assets
    PROVE  Worth(p, a, r) \in Int
  <1>1. p.collateral[a] + p.supply[a] \in Nat /\ p.liabilities[a] \in Nat
    BY DEF PositionsType
  <1> QED BY <1>1, RedemptionPaid, DebtPaid DEF Worth

\* No holder has more than the supply, nor owes more.
LEMMA HeldWithinSupply ==
    ASSUME NEW p \in [Holders -> PositionsType], NEW a \in Assets, NEW h \in Holders
    PROVE  /\ p[h].collateral[a] + p[h].supply[a] <= Supplied(p, a)
           /\ p[h].liabilities[a] <= Owing(p, a)
  <1> DEFINE have == [k \in Holders |-> p[k].collateral[a] + p[k].supply[a]]
             owe == [k \in Holders |-> p[k].liabilities[a]]
  <1>1. have \in [Holders -> Nat] /\ owe \in [Holders -> Nat]
    BY DEF PositionsType
  <1>2. Supplied(p, a) = Total(have) /\ Owing(p, a) = Total(owe)
    BY DEF Supplied, Owing, Total
  <1>3. have[h] = p[h].collateral[a] + p[h].supply[a] /\ owe[h] = p[h].liabilities[a]
    OBVIOUS
  <1> HIDE DEF have, owe
  <1> QED BY <1>1, <1>2, <1>3, TotalNat, HoldersFinite

\* The totals of an asset follow the change of one holder's positions.
LEMMA TotalsFollow ==
    ASSUME NEW p \in [Holders -> PositionsType], NEW h \in Holders,
           NEW q \in PositionsType, NEW a \in Assets, NEW new \in [Holders -> PositionsType],
           new[h] = q, \A k \in Holders \ {h} : new[k] = p[k]
    PROVE  /\ Supplied(new, a) = Supplied(p, a) + (q.collateral[a] + q.supply[a])
                                   - (p[h].collateral[a] + p[h].supply[a])
           /\ Owing(new, a) = Owing(p, a) + q.liabilities[a] - p[h].liabilities[a]
  <1> DEFINE have(w) == [k \in Holders |-> w[k].collateral[a] + w[k].supply[a]]
             owe(w) == [k \in Holders |-> w[k].liabilities[a]]
  <1>2. ASSUME NEW w \in [Holders -> PositionsType]
        PROVE  /\ have(w) \in [Holders -> Nat] /\ owe(w) \in [Holders -> Nat]
               /\ Supplied(w, a) = Total(have(w)) /\ Owing(w, a) = Total(owe(w))
    <2>1. have(w) \in [Holders -> Nat] /\ owe(w) \in [Holders -> Nat]
      BY DEF PositionsType
    <2>2. Supplied(w, a) = Total(have(w)) /\ Owing(w, a) = Total(owe(w))
      BY DEF Supplied, Owing, Total
    <2> QED BY <2>1, <2>2
  <1>3. /\ have(p)[h] = p[h].collateral[a] + p[h].supply[a]
        /\ owe(p)[h] = p[h].liabilities[a]
        /\ have(new)[h] = q.collateral[a] + q.supply[a] /\ owe(new)[h] = q.liabilities[a]
        /\ \A k \in Holders \ {h} : have(new)[k] = have(p)[k] /\ owe(new)[k] = owe(p)[k]
    OBVIOUS
  <1> HIDE DEF have, owe
  <1>4. /\ have(p) \in [Holders -> Nat] /\ owe(p) \in [Holders -> Nat]
        /\ have(new) \in [Holders -> Nat] /\ owe(new) \in [Holders -> Nat]
    BY <1>2
  <1>5. /\ Total(have(new)) = Total(have(p)) + have(new)[h] - have(p)[h]
        /\ Total(owe(new)) = Total(owe(p)) + owe(new)[h] - owe(p)[h]
    BY <1>3, <1>4, TotalFollows, HoldersFinite
  <1> QED BY <1>2, <1>3, <1>5
-----------------------------------------------------------------------------
\* A pool starts empty.
LEMMA InitIInv == Init => IInv
  <1> SUFFICES ASSUME Init PROVE IInv
    OBVIOUS
  <1>1. NewReserve \in Used
    BY PoolReserveAssumption DEF NewReserve, Used, Reserves
  <1>2. Typed
    <2>1. StatusTypeOK
      BY PoolStatusAssumption DEF Init, StatusInit, StatusTypeOK, Statuses
    <2> QED BY <1>1, <2>1, LendingAssumption
            DEF Init, Typed, NoPositions, PositionsType, Zero
  <1>3. CopyKept
    BY DEF Init, CopyKept
  <1>4. TotalSupply(NewReserve) = 0 /\ TotalLiabilities(NewReserve) = 0
    <2>1. 0 * Scalar9 = 0 /\ 0 \div Scalar9 = 0
      BY PoolReserveAssumption
    <2> QED BY <2>1, PoolReserveAssumption
            DEF TotalSupply, TotalLiabilities, ToAssetFromB, ToAssetFromD, NewReserve,
                MulFloor, MulCeil
  <1>5. ASSUME NEW a \in Assets PROVE Sound(a)
    <2>1. /\ [h \in Holders |-> positions[h].collateral[a] + positions[h].supply[a]]
               = [h \in Holders |-> 0]
          /\ [h \in Holders |-> positions[h].liabilities[a]] = [h \in Holders |-> 0]
      BY DEF Init, NoPositions, Zero
    <2>2. Supplied(positions, a) = 0 /\ Owing(positions, a) = 0
      BY <2>1, TotalZero, HoldersFinite DEF Supplied, Owing, Total
    <2> QED BY <1>4, <2>2 DEF Init, Sound, Matches, Owed, Settled, NewReserve, Zero
  <1> QED BY <1>2, <1>3, <1>5 DEF IInv

\* A submit starts with the loaded reserves and nothing to transfer.
LEMMA BeginKeeps ==
    ASSUME IInv, NEW from \in Users, Begin(from)
    PROVE  IInv'
  <1> DEFINE res == [a \in Assets |-> Load(a)]
  <1>1. /\ Typed /\ tx = NoTx
        /\ UNCHANGED <<statusVars, reserve, accrual, positions, live, tokens>>
    BY DEF IInv, Begin
  <1>2. res \in [Assets -> Used]
    BY <1>1, LoadKeeps
  <1>3. /\ tx'.res = res /\ tx'.held = balance /\ tx'.sent = Zero /\ tx'.due = Zero
        /\ tx'.holders = positions /\ tx'.from = from /\ tx'.stored = {}
        /\ tx' \in Transactions
    BY <1>1, <1>2, LendingAssumption DEF Begin, Transactions, Typed, Zero
  <1>4. Typed'
    BY <1>1, <1>3 DEF Typed, StatusTypeOK, statusVars, tokens
  <1>5. ASSUME NEW a \in Assets
        PROVE  Sound(a)' /\ CopySound(a)' /\ CopyLoaded(a)' /\ CopyFair(a)'
    <2>1. /\ tx'.res[a] = Load(a) /\ tx'.sent[a] = 0 /\ tx'.due[a] = 0
          /\ reserve'[a] = reserve[a] /\ Settled(a)' = Settled(a) /\ status' = status
          /\ Load(a)' = Load(a) /\ positions' = positions
      BY <1>1, <1>3 DEF Zero, Settled, tokens, statusVars, Load
    <2>2. Sound(a)
      BY DEF IInv
    <2>3. Settled(a) \in Int /\ reserve[a] \in Used /\ Load(a) \in Used
      BY <1>1, LoadKeeps DEF Typed, Settled
    <2>4. Owed(Load(a)) <= Settled(a) + 0 - 0
      BY <1>1, <2>2, <2>3, LoadKeeps, OwedInt DEF Sound
    <2>5. Sound(a)'
      BY <2>1, <2>2 DEF Sound, Matches
    <2>6. CopySound(a)'
      BY <1>1, <1>3, <2>1, <2>2, <2>4, LoadKeeps DEF Sound, CopySound, Matches
    <2>7. CopyLoaded(a)'
      BY <1>1, <2>1, <2>3, LoadKeeps, UsedFields DEF CopyLoaded
    <2>8. CopyFair(a)'
      <3>1. Worth(positions[from], a, Load(a)) \in Int
        BY <1>1, <2>3, WorthInt DEF Typed, Holders
      <3> QED BY <1>3, <2>1, <3>1 DEF CopyFair, Worth
    <2> QED BY <2>5, <2>6, <2>7, <2>8
  <1>6. CopyKept'
    BY <1>1, <1>3, <1>5 DEF CopyKept, tokens
  <1> QED BY <1>4, <1>5, <1>6 DEF IInv
-----------------------------------------------------------------------------
\* The supplies follow what a request changes of from's positions in its asset, and
\* the rest of the positions is left as it is.
Follows(old, new, p, q, a) ==
    /\ new.b_supply = old.b_supply + (q.collateral[a] + q.supply[a])
                        - (p.collateral[a] + p.supply[a])
    /\ new.d_supply = old.d_supply + q.liabilities[a] - p.liabilities[a]
    /\ \A b \in Assets \ {a} : /\ q.collateral[b] = p.collateral[b]
                               /\ q.supply[b] = p.supply[b]
                               /\ q.liabilities[b] = p.liabilities[b]

\* A request adds no more to what a reserve owes, and no more to what from's
\* positions are worth, than the transfers it asks for; it grows only what the
\* status allows; and unless the health is checked at the end it takes no collateral
\* and adds no debt.
Lawful(a, r, pos, sent, due, check) ==
    /\ Request(a, r, pos, sent, due, check)
    /\ Follows(tx.res[a], r, Own, pos, a)
    /\ Owed(r) <= Owed(tx.res[a]) + sent - due
    /\ Worth(pos, a, r) - Worth(Own, a, tx.res[a]) <= sent - due
    /\ r.b_rate = tx.res[a].b_rate /\ r.d_rate = tx.res[a].d_rate
    /\ r.backstop_credit = tx.res[a].backstop_credit
    /\ ~MayBorrow(status) => r.d_supply <= tx.res[a].d_supply
    /\ ~MaySupply(status) => r.b_supply <= tx.res[a].b_supply
    /\ check \/ /\ pos.liabilities[a] <= Own.liabilities[a]
                /\ pos.collateral[a] >= Own.collateral[a]
LawfulRequest(a) ==
    /\ InRequest
    /\ \E r \in Used, pos \in PositionsType, sent \in Nat, due \in Nat, check \in BOOLEAN :
          Lawful(a, r, pos, sent, due, check)

\* A lawful request, once its parameters are known.
LEMMA LawfulParts ==
    ASSUME InRequest, NEW a \in Assets, NEW r \in Used, NEW pos \in PositionsType,
           NEW sent \in Nat, NEW due \in Nat, NEW check \in BOOLEAN,
           Lawful(a, r, pos, sent, due, check)
    PROVE  LawfulRequest(a)
  BY Zenon DEF LawfulRequest

\* The copy of a running submit is typed, and its supplies are its holders'.
CopyTyped == tx \in Transactions /\ \A a \in Assets : Matches(tx.res[a], tx.holders, a)

\* A request keeps the types and the match, and changes only what it names.
LEMMA RequestMoves ==
    ASSUME CopyTyped, InRequest, NEW a \in Assets, NEW r \in Used, NEW pos \in PositionsType,
           NEW sent \in Nat, NEW due \in Nat, NEW check \in BOOLEAN,
           Request(a, r, pos, sent, due, check), Follows(tx.res[a], r, Own, pos, a)
    PROVE  /\ CopyTyped'
           /\ UNCHANGED <<statusVars, reserve, accrual, positions, live, tokens>>
           /\ tx'.res = [tx.res EXCEPT ![a] = r] /\ tx'.stored = tx.stored \cup {a}
           /\ tx'.sent = [tx.sent EXCEPT ![a] = @ + sent]
           /\ tx'.due = [tx.due EXCEPT ![a] = @ + due] /\ tx'.held = tx.held
           /\ tx'.holders = [tx.holders EXCEPT ![tx.from] = pos]
           /\ tx'.from = tx.from /\ tx'.check_health = (tx.check_health \/ check)
  <1>1. /\ tx \in Transactions
        /\ UNCHANGED <<statusVars, reserve, accrual, positions, live, tokens>>
    BY DEF CopyTyped, Request
  <1>2. tx' = [tx EXCEPT !.res[a] = r, !.holders[tx.from] = pos, !.stored = @ \cup {a},
                         !.sent[a] = @ + sent, !.due[a] = @ + due,
                         !.check_health = @ \/ check, !.count = @ + 1]
    BY DEF Request
  <1>3. /\ tx'.res = [tx.res EXCEPT ![a] = r] /\ tx'.stored = tx.stored \cup {a}
        /\ tx'.sent = [tx.sent EXCEPT ![a] = @ + sent]
        /\ tx'.due = [tx.due EXCEPT ![a] = @ + due] /\ tx'.held = tx.held
        /\ tx'.holders = [tx.holders EXCEPT ![tx.from] = pos]
        /\ tx'.from = tx.from /\ tx'.check_health = (tx.check_health \/ check)
        /\ tx'.count = tx.count + 1
    BY <1>1, <1>2 DEF Transactions
  <1>4. tx' \in Transactions
    <2>1. /\ tx'.res \in [Assets -> Used] /\ tx'.stored \in SUBSET Assets
          /\ tx'.held \in [Assets -> Nat] /\ tx'.from \in Users
          /\ tx'.check_health \in BOOLEAN
      BY <1>1, <1>3 DEF Transactions
    <2>2. tx'.sent \in [Assets -> Nat] /\ tx'.due \in [Assets -> Nat]
      BY <1>1, <1>3 DEF Transactions
    <2>3. tx'.holders \in [Holders -> PositionsType]
      BY <1>1, <1>3 DEF Transactions
    <2>4. tx'.count \in 0..MaxRequests
      BY <1>1, <1>3, LendingAssumption DEF Transactions, InRequest
    <2>5. tx' = [from |-> tx'.from, res |-> tx'.res, stored |-> tx'.stored,
                 holders |-> tx'.holders, held |-> tx'.held, sent |-> tx'.sent,
                 due |-> tx'.due, check_health |-> tx'.check_health,
                 count |-> tx'.count]
      BY <1>1, <1>2 DEF Transactions
    <2> QED BY <2>1, <2>2, <2>3, <2>4, <2>5 DEF Transactions
  <1>5. /\ tx.from \in Holders /\ tx.holders \in [Holders -> PositionsType]
        /\ Own = tx.holders[tx.from] /\ Own \in PositionsType
    BY <1>1 DEF Transactions, Holders, Own
  <1>6. ASSUME NEW b \in Assets PROVE Matches(tx'.res[b], tx'.holders, b)
    <2>1. Matches(tx.res[b], tx.holders, b)
      BY DEF CopyTyped
    <2>2. /\ Supplied(tx'.holders, b) = Supplied(tx.holders, b)
                 + (pos.collateral[b] + pos.supply[b]) - (Own.collateral[b] + Own.supply[b])
          /\ Owing(tx'.holders, b)
               = Owing(tx.holders, b) + pos.liabilities[b] - Own.liabilities[b]
      <3> DEFINE new == tx'.holders
                 held == tx.holders
                 from == tx.from
      <3>1. /\ new \in [Holders -> PositionsType] /\ new[from] = pos
            /\ \A k \in Holders \ {from} : new[k] = held[k]
            /\ held \in [Holders -> PositionsType] /\ from \in Holders /\ Own = held[from]
        BY <1>3, <1>5
      <3> HIDE DEF new, held, from
      <3>2. /\ Supplied(new, b) = Supplied(held, b) + (pos.collateral[b] + pos.supply[b])
                                     - (held[from].collateral[b] + held[from].supply[b])
            /\ Owing(new, b) = Owing(held, b) + pos.liabilities[b]
                                 - held[from].liabilities[b]
        BY <3>1, TotalsFollow
      <3> QED BY <3>1, <3>2 DEF new, held
    <2>3. /\ pos.collateral[b] \in Nat /\ pos.supply[b] \in Nat /\ pos.liabilities[b] \in Nat
          /\ Own.collateral[b] \in Nat /\ Own.supply[b] \in Nat /\ Own.liabilities[b] \in Nat
      BY <1>5 DEF PositionsType
    <2>4. tx.res[b] \in Used /\ tx.res[b].b_supply \in Nat /\ tx.res[b].d_supply \in Nat
      BY <1>1, UsedFields DEF Transactions
    <2>5. CASE b # a
      <3>1. tx'.res[b] = tx.res[b]
        BY <1>1, <1>3, <2>5 DEF Transactions
      <3>2. /\ pos.collateral[b] = Own.collateral[b] /\ pos.supply[b] = Own.supply[b]
            /\ pos.liabilities[b] = Own.liabilities[b]
        BY <2>5 DEF Follows
      <3> QED BY <2>1, <2>2, <2>3, <2>4, <3>1, <3>2 DEF Matches
    <2>6. CASE b = a
      <3>1. tx'.res[a] = r
        BY <1>1, <1>3 DEF Transactions
      <3> QED BY <2>1, <2>2, <2>3, <2>4, <2>6, <3>1 DEF Matches, Follows
    <2> QED BY <2>5, <2>6
  <1> QED BY <1>1, <1>3, <1>4, <1>6 DEF CopyTyped

\* A request keeps the copy.
LEMMA RequestKeeps ==
    ASSUME IInv, NEW a \in Assets, LawfulRequest(a)
    PROVE  IInv'
  <1>1. /\ Typed /\ CopyKept /\ InRequest /\ tx # NoTx /\ tx \in Transactions
    BY DEF IInv, Typed, InRequest, LawfulRequest
  <1>2. CopyTyped
    BY <1>1 DEF CopyTyped, CopyKept, CopySound
  <1> SUFFICES ASSUME NEW r \in Used, NEW pos \in PositionsType, NEW sent \in Nat,
                      NEW due \in Nat, NEW check \in BOOLEAN,
                      Request(a, r, pos, sent, due, check),
                      Follows(tx.res[a], r, Own, pos, a),
                      Owed(r) <= Owed(tx.res[a]) + sent - due,
                      Worth(pos, a, r) - Worth(Own, a, tx.res[a]) <= sent - due,
                      r.b_rate = tx.res[a].b_rate, r.d_rate = tx.res[a].d_rate,
                      ~MayBorrow(status) => r.d_supply <= tx.res[a].d_supply,
                      ~MaySupply(status) => r.b_supply <= tx.res[a].b_supply
               PROVE  IInv'
    BY DEF LawfulRequest, Lawful
  <1>3. /\ tx'.res = [tx.res EXCEPT ![a] = r] /\ tx'.stored = tx.stored \cup {a}
        /\ tx'.sent = [tx.sent EXCEPT ![a] = @ + sent]
        /\ tx'.due = [tx.due EXCEPT ![a] = @ + due] /\ tx'.held = tx.held
        /\ tx'.holders = [tx.holders EXCEPT ![tx.from] = pos]
        /\ tx'.from = tx.from
    BY <1>1, <1>2, RequestMoves
  <1>4. /\ CopyTyped' /\ tx' \in Transactions
        /\ UNCHANGED <<statusVars, reserve, accrual, positions, live, tokens>>
    BY <1>1, <1>2, RequestMoves DEF CopyTyped
  <1>5. Typed'
    BY <1>1, <1>4 DEF Typed, StatusTypeOK, statusVars, tokens
  <1>6. /\ tx.from \in Holders /\ tx.holders \in [Holders -> PositionsType]
        /\ Own = tx.holders[tx.from] /\ Own \in PositionsType
        /\ tx'.holders[tx'.from] = pos /\ positions[tx.from] \in PositionsType
    BY <1>1, <1>4, <1>3 DEF Transactions, Holders, Own, Typed
  <1>7. ASSUME NEW b \in Assets
        PROVE  Sound(b)' /\ CopySound(b)' /\ CopyLoaded(b)' /\ CopyFair(b)'
    <2>1. /\ reserve' = reserve /\ Settled(b)' = Settled(b) /\ Settled(b) \in Int
          /\ status' = status /\ positions' = positions /\ Load(b)' = Load(b)
      BY <1>1, <1>4 DEF Settled, tokens, Typed, statusVars, Load
    <2>2. Sound(b)'
      BY <2>1 DEF Sound, IInv
    <2>3. CopySound(b) /\ CopyLoaded(b) /\ CopyFair(b)
      BY <1>1, <1>4 DEF CopyKept
    <2>5. Matches(tx'.res[b], tx'.holders, b)
      BY <1>4 DEF CopyTyped
    <2>6. /\ tx.res[b] \in Used /\ tx.sent[b] \in Nat /\ tx.due[b] \in Nat
          /\ tx.res[b].b_supply \in Nat /\ tx.res[b].d_supply \in Nat
      BY <1>1, <1>4, UsedFields DEF Transactions
    <2>7. CASE b # a
      <3>1. /\ tx'.res[b] = tx.res[b] /\ tx'.sent[b] = tx.sent[b]
            /\ tx'.due[b] = tx.due[b] /\ (b \in tx'.stored <=> b \in tx.stored)
        BY <1>1, <1>4, <1>3, <2>7 DEF Transactions
      <3>2. /\ pos.collateral[b] = Own.collateral[b] /\ pos.supply[b] = Own.supply[b]
            /\ pos.liabilities[b] = Own.liabilities[b]
        BY <2>7 DEF Follows
      <3>3. Matches(tx'.res[b], tx'.holders, b)
        BY <2>5
      <3>4. CopySound(b)' /\ CopyLoaded(b)'
        BY <2>1, <2>3, <3>1, <3>3 DEF CopySound, CopyLoaded, Matches
      <3>5. CopyFair(b)'
        <4>1. /\ Worth(pos, b, tx.res[b]) = Worth(Own, b, tx.res[b])
              /\ Worth(positions[tx.from], b, Load(b))' = Worth(positions[tx.from], b, Load(b))
          BY <1>3, <2>1, <3>2 DEF Worth
        <4> QED BY <1>6, <2>3, <3>1, <4>1 DEF CopyFair
      <3> QED BY <2>2, <3>4, <3>5
    <2>8. CASE b = a
      <3>1. /\ tx'.res[a] = r /\ tx'.sent[a] = tx.sent[a] + sent
            /\ tx'.due[a] = tx.due[a] + due /\ a \in tx'.stored
        BY <1>1, <1>4, <1>3 DEF Transactions
      <3>2. Owed(r) \in Int /\ Owed(tx.res[a]) \in Int
        BY <2>6, <2>8, OwedInt
      <3>3. Matches(r, tx'.holders, a)
        BY <2>5, <2>8, <3>1
      <3>4. CopySound(a)'
        BY <2>1, <2>3, <2>6, <2>8, <3>1, <3>2, <3>3 DEF CopySound, Matches
      <3>5. CopyLoaded(a)'
        <4>1. /\ reserve[a] \in Used /\ r.d_supply \in Int /\ r.b_supply \in Int
              /\ reserve[a].d_supply \in Int /\ reserve[a].b_supply \in Int
          BY <1>1, <1>4, UsedFields DEF Typed
        <4> QED BY <2>1, <2>3, <2>6, <2>8, <3>1, <4>1 DEF CopyLoaded
      <3>6. CopyFair(a)'
        <4>1. /\ Worth(pos, a, r) \in Int /\ Worth(Own, a, tx.res[a]) \in Int
              /\ Worth(positions[tx.from], a, Load(a)) \in Int
          BY <1>1, <1>4, <1>6, <2>6, <2>8, WorthInt, LoadKeeps
        <4>2. Worth(Own, a, tx.res[a]) - Worth(positions[tx.from], a, Load(a))
                <= tx.sent[a] - tx.due[a]
          BY <1>6, <2>3, <2>8 DEF CopyFair
        <4>3. Worth(pos, a, r) - Worth(positions[tx.from], a, Load(a))
                <= tx.sent[a] + sent - (tx.due[a] + due)
          BY <2>6, <2>8, <4>1, <4>2
        <4>4. Worth(positions[tx.from], a, Load(a))'
                = Worth(positions[tx.from], a, Load(a))
          BY <1>3, <2>1, <2>8 DEF Worth
        <4>5. tx'.holders[tx'.from] = pos /\ tx'.res[a] = r
          BY <1>6, <3>1
        <4>6. tx'.sent[a] - tx'.due[a] = tx.sent[a] + sent - (tx.due[a] + due)
          BY <2>6, <2>8, <3>1
        <4> HIDE DEF Worth
        <4> QED BY <4>3, <4>4, <4>5, <4>6 DEF CopyFair
      <3> QED BY <2>2, <2>8, <3>4, <3>5, <3>6
    <2> QED BY <2>7, <2>8
  <1>8. CopyKept'
    BY <1>1, <1>4, <1>3, <1>7 DEF CopyKept, tokens
  <1> QED BY <1>5, <1>7, <1>8 DEF IInv

\* Whatever drops the copy and leaves the rest as it is keeps the invariant.
LEMMA DropKeeps ==
    ASSUME IInv, tx' = NoTx,
           UNCHANGED <<statusVars, reserve, accrual, positions, live, tokens>>
    PROVE  IInv'
  <1>1. Typed' /\ CopyKept'
    BY DEF IInv, Typed, CopyKept, tokens, statusVars, StatusTypeOK
  <1>2. ASSUME NEW a \in Assets PROVE Sound(a)'
    <2>1. Settled(a)' = Settled(a) /\ reserve'[a] = reserve[a] /\ positions' = positions
      BY DEF Settled, tokens
    <2> QED BY <2>1 DEF IInv, Sound
  <1> QED BY <1>1, <1>2 DEF IInv

\* What a request finds: the copy of its reserve, and its user's positions, which
\* are part of the reserve's supplies.
LEMMA RequestFinds ==
    ASSUME CopyTyped, NEW a \in Assets
    PROVE  /\ tx.res[a] \in Used /\ Own \in PositionsType
           /\ Own.supply[a] \in Nat /\ Own.collateral[a] \in Nat
           /\ Own.liabilities[a] \in Nat
           /\ Own.collateral[a] + Own.supply[a] <= tx.res[a].b_supply
           /\ Own.liabilities[a] <= tx.res[a].d_supply
  <1>1. tx \in Transactions /\ Matches(tx.res[a], tx.holders, a)
    BY DEF CopyTyped
  <1>2. tx.from \in Holders /\ tx.holders \in [Holders -> PositionsType]
    BY <1>1 DEF Transactions, Holders
  <1>3. /\ Own.collateral[a] + Own.supply[a] <= tx.res[a].b_supply
        /\ Own.liabilities[a] <= tx.res[a].d_supply
    BY <1>1, <1>2, HeldWithinSupply DEF Matches, Own
  <1> QED BY <1>1, <1>2, <1>3 DEF Transactions, Own, PositionsType
-----------------------------------------------------------------------------
\* Positions p with the b tokens w, as collateral or not.
Replaced(p, side, w) == [p EXCEPT ![side] = w]

\* Only the b tokens that are set change.
LEMMA HeldChanges ==
    ASSUME NEW p \in PositionsType, NEW side \in {"supply", "collateral"},
           NEW w \in [Assets -> Nat], NEW a \in Assets
    PROVE  /\ Replaced(p, side, w) \in PositionsType
           /\ Replaced(p, side, w).liabilities = p.liabilities
           /\ Replaced(p, side, w).collateral[a] + Replaced(p, side, w).supply[a]
                = p.collateral[a] + p.supply[a] + w[a] - p[side][a]
           /\ \A b \in Assets : w[b] = p[side][b] =>
                /\ Replaced(p, side, w).collateral[b] = p.collateral[b]
                /\ Replaced(p, side, w).supply[b] = p.supply[b]
           /\ Replaced(p, side, w).collateral
                = IF side = "collateral" THEN w ELSE p.collateral
  <1> DEFINE q == Replaced(p, side, w)
  <1>1. p.collateral \in [Assets -> Nat] /\ p.supply \in [Assets -> Nat]
    BY DEF PositionsType
  <1>2. CASE side = "supply"
    <2>1. /\ q \in PositionsType /\ q.supply = w
          /\ q.collateral = p.collateral /\ q.liabilities = p.liabilities
      BY <1>2 DEF PositionsType, Replaced
    <2> HIDE DEF q
    <2>2. q.collateral[a] + q.supply[a] = p.collateral[a] + p.supply[a] + w[a] - p.supply[a]
      BY <1>1, <2>1
    <2> QED BY <1>2, <2>1, <2>2 DEF q
  <1>3. CASE side = "collateral"
    <2>1. /\ q \in PositionsType /\ q.collateral = w
          /\ q.supply = p.supply /\ q.liabilities = p.liabilities
      BY <1>3 DEF PositionsType, Replaced
    <2> HIDE DEF q
    <2>2. q.collateral[a] + q.supply[a]
            = p.collateral[a] + p.supply[a] + w[a] - p.collateral[a]
      BY <1>1, <2>1
    <2> QED BY <1>3, <2>1, <2>2 DEF q
  <1> QED BY <1>2, <1>3

\* Deposits, as collateral or not, into a pool that accepts them.
LEMMA AddBTokensLawful ==
    ASSUME CopyTyped, InRequest, MaySupply(status), NEW a \in Assets, NEW amount \in Nat,
           NEW side \in {"supply", "collateral"},
           AddBTokens(side, a, ToBTokenDown(tx.res[a], amount), amount)
    PROVE  LawfulRequest(a)
  <1> DEFINE old == tx.res[a]
             m == ToBTokenDown(old, amount)
             r == [old EXCEPT !.b_supply = @ + m]
             pos == [Own EXCEPT ![side][a] = @ + m]
  <1>1. Request(a, r, pos, amount, 0, FALSE)
    BY DEF AddBTokens
  <1>2. old \in Used /\ m \in Nat /\ Owed(r) <= Owed(old) + amount /\ r \in Used
    BY RequestFinds, DepositCovered
  <1>3. m * old.b_rate <= amount * Scalar9
    BY <1>2, UsedFields, PoolReserveAssumption, DivFloorBounds DEF ToBTokenDown
  <1> HIDE DEF m
  <1>4. /\ pos \in PositionsType
        /\ pos.collateral[a] + pos.supply[a] = Own.collateral[a] + Own.supply[a] + m
        /\ pos.liabilities[a] = Own.liabilities[a] /\ pos.collateral[a] >= Own.collateral[a]
        /\ \A b \in Assets \ {a} : /\ pos.collateral[b] = Own.collateral[b]
                                   /\ pos.supply[b] = Own.supply[b]
                                   /\ pos.liabilities[b] = Own.liabilities[b]
    <2> DEFINE w == [Own[side] EXCEPT ![a] = @ + m]
    <2>1. pos = Replaced(Own, side, w)
      BY DEF Replaced
    <2>2. /\ Own \in PositionsType /\ Own[side] \in [Assets -> Nat] /\ w \in [Assets -> Nat]
          /\ w[a] = Own[side][a] + m /\ \A b \in Assets \ {a} : w[b] = Own[side][b]
      BY <1>2, RequestFinds DEF PositionsType
    <2> HIDE DEF w, pos
    <2>3. /\ pos \in PositionsType /\ pos.liabilities = Own.liabilities
          /\ pos.collateral[a] + pos.supply[a]
               = Own.collateral[a] + Own.supply[a] + w[a] - Own[side][a]
          /\ \A b \in Assets \ {a} : /\ pos.collateral[b] = Own.collateral[b]
                                     /\ pos.supply[b] = Own.supply[b]
          /\ pos.collateral = IF side = "collateral" THEN w ELSE Own.collateral
      BY <2>1, <2>2, HeldChanges
    <2>4. Own[side][a] \in Nat
      BY <2>2
    <2>5. pos.collateral[a] >= Own.collateral[a]
      BY <1>2, <2>2, <2>3, <2>4, RequestFinds
    <2> QED BY <1>2, <2>2, <2>3, <2>4, <2>5, RequestFinds
  <1>5. /\ r.b_rate = old.b_rate /\ r.d_rate = old.d_rate
        /\ r.backstop_credit = old.backstop_credit
        /\ r.d_supply = old.d_supply /\ r.b_supply = old.b_supply + m
        /\ old.d_supply \in Nat /\ old.b_supply \in Nat
    BY <1>2, UsedFields DEF Used, Reserves
  <1> HIDE DEF r, pos
  <1>6. Follows(old, r, Own, pos, a)
    BY <1>2, <1>4, <1>5, RequestFinds DEF Follows
  <1>7. Worth(pos, a, r) - Worth(Own, a, old) <= amount - 0
    <2> DEFINE x == Own.collateral[a] + Own.supply[a]
    <2>1. x \in Nat /\ Own.liabilities[a] \in Nat
      BY RequestFinds
    <2>2. MulFloor(x + m, old.b_rate, Scalar9) <= MulFloor(x, old.b_rate, Scalar9) + amount
      BY <1>2, <1>3, <2>1, FloorAdds, UsedFields, PoolReserveAssumption
    <2>3. /\ Worth(pos, a, r) = MulFloor(x + m, old.b_rate, Scalar9)
                                  - ToAssetFromD(old, Own.liabilities[a])
          /\ Worth(Own, a, old) = MulFloor(x, old.b_rate, Scalar9)
                                    - ToAssetFromD(old, Own.liabilities[a])
      BY <1>4, <1>5 DEF Worth, ToAssetFromB, ToAssetFromD
    <2> HIDE DEF x, old
    <2>4. x + m \in Nat
      BY <1>2, <2>1
    <2>5. /\ MulFloor(x + m, old.b_rate, Scalar9) \in Nat
          /\ MulFloor(x, old.b_rate, Scalar9) \in Nat
          /\ ToAssetFromD(old, Own.liabilities[a]) \in Nat
      BY <1>2, <2>1, <2>4, MulFloorBounds, DebtPaid, UsedFields, PoolReserveAssumption
    <2> QED BY <2>2, <2>3, <2>5
  <1>8. Owed(r) <= Owed(old) + amount - 0
    BY <1>2, OwedInt
  <1>9. 0 \in Nat /\ FALSE \in BOOLEAN
    OBVIOUS
  <1>10. /\ ~MayBorrow(status) => r.d_supply <= old.d_supply
         /\ ~MaySupply(status) => r.b_supply <= old.b_supply
    BY <1>5
  <1>11. pos.liabilities[a] <= Own.liabilities[a]
    BY <1>4, RequestFinds
  <1>12. Lawful(a, r, pos, amount, 0, FALSE)
    BY <1>1, <1>4, <1>5, <1>6, <1>7, <1>8, <1>10, <1>11 DEF Lawful
  <1> QED BY <1>2, <1>4, <1>9, <1>12, LawfulParts

\* Withdrawals, of an amount or of all that is held.
LEMMA RedeemLawful ==
    ASSUME CopyTyped, InRequest, NEW a \in Assets, NEW amount \in Nat,
           NEW side \in {"supply", "collateral"}, NEW check \in BOOLEAN,
           side = "supply" \/ check, Redeem(side, a, amount, check)
    PROVE  LawfulRequest(a)
  <1> DEFINE old == tx.res[a]
             held == Own[side][a]
             m == Burnt(old, held, amount)
             n == TokensOut(old, held, amount)
             r == [old EXCEPT !.b_supply = @ - m]
             pos == [Own EXCEPT ![side][a] = @ - m]
             x == Own.collateral[a] + Own.supply[a]
  <1>1. m > 0 /\ m <= held /\ Request(a, r, pos, 0, n, check)
    BY DEF Redeem, RemoveBTokens
  <1>2. held \in Nat /\ old \in Used /\ x \in Nat /\ held <= x /\ x <= old.b_supply
    BY RequestFinds
  <1>3. m \in Nat /\ n \in Nat /\ n * Scalar9 <= m * old.b_rate
    <2>1. ToBTokenUp(old, amount) \in Nat
      BY <1>2, WithdrawalPaid
    <2>2. CASE ToBTokenUp(old, amount) > held
      <3>1. m = held /\ n = ToAssetFromB(old, held)
        BY <1>2, <2>1, <2>2 DEF Burnt, TokensOut, AtMost
      <3> HIDE DEF m, n, old, held
      <3> QED BY <1>2, <3>1, RedemptionPaid
    <2>3. CASE ~(ToBTokenUp(old, amount) > held)
      <3>1. m = ToBTokenUp(old, amount) /\ n = amount
        BY <1>2, <2>1, <2>3 DEF Burnt, TokensOut, AtMost
      <3> HIDE DEF m, n, old, held
      <3> QED BY <1>2, <3>1, WithdrawalPaid
    <2> QED BY <2>2, <2>3
  <1> HIDE DEF m, n
  <1>4. /\ r.b_rate = old.b_rate /\ r.d_rate = old.d_rate
        /\ r.backstop_credit = old.backstop_credit
        /\ r.b_supply = old.b_supply - m /\ r.d_supply = old.d_supply
        /\ old.d_supply \in Nat /\ old.b_supply \in Nat
    BY <1>2, UsedFields DEF Used, Reserves
  <1>5. m <= x /\ m <= old.b_supply
    <2> HIDE DEF old, held, x
    <2> QED BY <1>1, <1>2, <1>3, <1>4
  <1>6. r \in Used /\ Owed(r) + n <= Owed(old)
    <2> HIDE DEF old
    <2> QED BY <1>2, <1>3, <1>5, BurnCovered
  <1>7. /\ pos \in PositionsType
        /\ pos.collateral[a] + pos.supply[a] = x - m
        /\ pos.liabilities[a] = Own.liabilities[a]
        /\ side = "supply" => pos.collateral[a] = Own.collateral[a]
        /\ \A b \in Assets \ {a} : /\ pos.collateral[b] = Own.collateral[b]
                                   /\ pos.supply[b] = Own.supply[b]
                                   /\ pos.liabilities[b] = Own.liabilities[b]
    <2> DEFINE w == [Own[side] EXCEPT ![a] = @ - m]
    <2>1. pos = Replaced(Own, side, w)
      BY DEF Replaced
    <2>2. /\ Own \in PositionsType /\ Own[side] \in [Assets -> Nat] /\ w \in [Assets -> Nat]
          /\ w[a] = held - m /\ \A b \in Assets \ {a} : w[b] = Own[side][b]
      BY <1>1, <1>2, <1>3, RequestFinds DEF PositionsType
    <2> HIDE DEF w, pos
    <2>3. /\ pos \in PositionsType /\ pos.liabilities = Own.liabilities
          /\ pos.collateral[a] + pos.supply[a] = x + w[a] - held
          /\ \A b \in Assets \ {a} : /\ pos.collateral[b] = Own.collateral[b]
                                     /\ pos.supply[b] = Own.supply[b]
          /\ pos.collateral = IF side = "collateral" THEN w ELSE Own.collateral
      BY <2>1, <2>2, HeldChanges
    <2>4. x + w[a] - held = x - m
      <3> HIDE DEF x, held
      <3> QED BY <1>2, <1>3, <2>2
    <2> QED BY <2>3, <2>4
  <1> HIDE DEF r, pos
  <1>8. Follows(old, r, Own, pos, a)
    BY <1>2, <1>3, <1>4, <1>7, RequestFinds DEF Follows
  <1>9. Worth(pos, a, r) - Worth(Own, a, old) <= 0 - n
    <2>1. Own.liabilities[a] \in Nat
      BY RequestFinds
    <2>2. /\ Worth(pos, a, r) = MulFloor(x - m, old.b_rate, Scalar9)
                                  - ToAssetFromD(old, Own.liabilities[a])
          /\ Worth(Own, a, old) = MulFloor(x, old.b_rate, Scalar9)
                                    - ToAssetFromD(old, Own.liabilities[a])
      BY <1>4, <1>7 DEF Worth, ToAssetFromB, ToAssetFromD
    <2> HIDE DEF x, old
    <2>3. MulFloor(x - m, old.b_rate, Scalar9) + n <= MulFloor(x, old.b_rate, Scalar9)
      BY <1>2, <1>3, <1>5, FloorTakes, UsedFields, PoolReserveAssumption
    <2>4. x - m \in Nat
      BY <1>2, <1>3, <1>5
    <2>5. /\ MulFloor(x - m, old.b_rate, Scalar9) \in Nat
          /\ MulFloor(x, old.b_rate, Scalar9) \in Nat
          /\ ToAssetFromD(old, Own.liabilities[a]) \in Nat
      BY <1>2, <2>1, <2>4, MulFloorBounds, DebtPaid, UsedFields, PoolReserveAssumption
    <2> QED BY <1>3, <2>2, <2>3, <2>5
  <1>10. Owed(r) <= Owed(old) + 0 - n
    BY <1>2, <1>3, <1>6, OwedInt
  <1>11. /\ ~MayBorrow(status) => r.d_supply <= old.d_supply
         /\ ~MaySupply(status) => r.b_supply <= old.b_supply
    BY <1>3, <1>4
  <1>12. check \/ (pos.liabilities[a] <= Own.liabilities[a] /\ pos.collateral[a] >= Own.collateral[a])
    BY <1>7, RequestFinds
  <1>13. Lawful(a, r, pos, 0, n, check)
    BY <1>1, <1>4, <1>8, <1>9, <1>10, <1>11, <1>12 DEF Lawful
  <1>14. 0 \in Nat
    OBVIOUS
  <1> QED BY <1>3, <1>6, <1>7, <1>13, <1>14, LawfulParts

\* Loans, from a pool that lends.
LEMMA BorrowLawful ==
    ASSUME CopyTyped, NEW a \in Assets, NEW amount \in Nat, Borrow(a, amount)
    PROVE  LawfulRequest(a)
  <1> DEFINE old == tx.res[a]
             m == ToDTokenUp(old, amount)
             r == [old EXCEPT !.d_supply = @ + m]
             pos == [Own EXCEPT !.liabilities[a] = @ + m]
  <1>1. InRequest /\ MayBorrow(status) /\ Request(a, r, pos, 0, amount, TRUE)
    BY DEF Borrow, AddLiabilities
  <1>2. old \in Used /\ m \in Nat /\ Owed(r) + amount <= Owed(old) /\ r \in Used
    BY <1>1, RequestFinds, LoanCovered
  <1>3. amount * Scalar9 <= m * old.d_rate
    BY <1>2, UsedFields, PoolReserveAssumption, DivCeilBounds DEF ToDTokenUp
  <1> HIDE DEF m
  <1>4. /\ pos \in PositionsType
        /\ pos.liabilities[a] = Own.liabilities[a] + m
        /\ pos.collateral = Own.collateral /\ pos.supply = Own.supply
        /\ \A b \in Assets \ {a} : pos.liabilities[b] = Own.liabilities[b]
    BY <1>1, <1>2, RequestFinds DEF PositionsType
  <1>5. /\ r.b_rate = old.b_rate /\ r.d_rate = old.d_rate
        /\ r.backstop_credit = old.backstop_credit
        /\ r.b_supply = old.b_supply /\ r.d_supply = old.d_supply + m
        /\ old.b_supply \in Nat /\ old.d_supply \in Nat
    BY <1>1, <1>2, UsedFields DEF Used, Reserves
  <1> HIDE DEF r, pos
  <1>6. Follows(old, r, Own, pos, a)
    BY <1>1, <1>2, <1>4, <1>5, RequestFinds DEF Follows
  <1>7. Worth(pos, a, r) - Worth(Own, a, old) <= 0 - amount
    <2> DEFINE x == Own.collateral[a] + Own.supply[a]
               l == Own.liabilities[a]
    <2>1. x \in Nat /\ l \in Nat
      BY <1>1, RequestFinds
    <2>2. /\ Worth(pos, a, r) = ToAssetFromB(old, x) - MulCeil(l + m, old.d_rate, Scalar9)
          /\ Worth(Own, a, old) = ToAssetFromB(old, x) - MulCeil(l, old.d_rate, Scalar9)
      BY <1>4, <1>5 DEF Worth, ToAssetFromB, ToAssetFromD
    <2> HIDE DEF x, l
    <2>3. MulCeil(l, old.d_rate, Scalar9) + amount <= MulCeil(l + m, old.d_rate, Scalar9)
      BY <1>2, <1>3, <2>1, CeilAdds, UsedFields, PoolReserveAssumption
    <2> HIDE DEF old
    <2>4. l + m \in Nat
      BY <1>2, <2>1
    <2>5. /\ MulCeil(l + m, old.d_rate, Scalar9) \in Nat
          /\ MulCeil(l, old.d_rate, Scalar9) \in Nat
          /\ ToAssetFromB(old, x) \in Nat
      BY <1>2, <2>1, <2>4, MulCeilBounds, RedemptionPaid, UsedFields, PoolReserveAssumption
    <2> QED BY <2>2, <2>3, <2>5
  <1>8. Owed(r) <= Owed(old) + 0 - amount
    BY <1>2, OwedInt
  <1>9. 0 \in Nat /\ TRUE \in BOOLEAN
    OBVIOUS
  <1>10. /\ ~MayBorrow(status) => r.d_supply <= old.d_supply
         /\ ~MaySupply(status) => r.b_supply <= old.b_supply
    BY <1>1, <1>5
  <1>11. Lawful(a, r, pos, 0, amount, TRUE)
    BY <1>1, <1>5, <1>6, <1>7, <1>8, <1>10 DEF Lawful
  <1> QED BY <1>1, <1>2, <1>4, <1>9, <1>11, LawfulParts

\* Repayments, of an amount or, with a refund, of all that is owed.
LEMMA RepayLawful ==
    ASSUME CopyTyped, NEW a \in Assets, NEW amount \in Nat, Repay(a, amount)
    PROVE  LawfulRequest(a)
  <1> DEFINE old == tx.res[a]
             owed == Own.liabilities[a]
             m == AtMost(ToDTokenDown(old, amount), owed)
             refund == Refund(old, owed, amount)
             n == amount - refund
             r == [old EXCEPT !.d_supply = @ - m]
             pos == [Own EXCEPT !.liabilities[a] = @ - m]
  <1>1. /\ InRequest /\ refund >= 0 /\ m > 0 /\ m <= owed
        /\ Request(a, r, pos, amount, refund, FALSE)
    BY DEF Repay, RemoveLiabilities
  <1>2. owed \in Nat /\ old \in Used /\ owed <= old.d_supply
    BY <1>1, RequestFinds
  <1>3. m \in Nat /\ refund \in Nat /\ n \in Nat /\ m * old.d_rate <= n * Scalar9
    <2>1. ToDTokenDown(old, amount) \in Nat
      BY <1>2, RepaymentPaid
    <2>2. CASE ToDTokenDown(old, amount) > owed
      <3>1. ToAssetFromD(old, owed) \in Nat
        BY <1>2, DebtPaid
      <3>2. m = owed /\ refund = amount - ToAssetFromD(old, owed)
        BY <1>2, <2>1, <2>2 DEF Refund, AtMost
      <3>3. n = ToAssetFromD(old, owed) /\ refund \in Int
        BY <3>1, <3>2
      <3> HIDE DEF m, n, old, owed, refund
      <3> QED BY <1>1, <1>2, <3>1, <3>2, <3>3, DebtPaid
    <2>3. CASE ~(ToDTokenDown(old, amount) > owed)
      <3>1. m = ToDTokenDown(old, amount) /\ refund = 0
        BY <1>2, <2>1, <2>3 DEF Refund, AtMost
      <3>2. n = amount
        BY <3>1
      <3> HIDE DEF m, n, old, owed, refund
      <3> QED BY <1>2, <3>1, <3>2, RepaymentPaid
    <2> QED BY <2>2, <2>3
  <1> HIDE DEF m, refund
  <1>4. /\ r.b_rate = old.b_rate /\ r.d_rate = old.d_rate
        /\ r.backstop_credit = old.backstop_credit
        /\ r.d_supply = old.d_supply - m /\ r.b_supply = old.b_supply
        /\ old.d_supply \in Nat /\ old.b_supply \in Nat
    BY <1>2, UsedFields DEF Used, Reserves
  <1>5. m <= old.d_supply
    <2> HIDE DEF old, owed
    <2> QED BY <1>1, <1>2, <1>3, <1>4
  <1>6. r \in Used /\ Owed(r) <= Owed(old) + n
    <2> HIDE DEF old, n
    <2> QED BY <1>2, <1>3, <1>5, RepaymentCovered
  <1>7. /\ pos \in PositionsType
        /\ pos.liabilities[a] = owed - m
        /\ pos.collateral = Own.collateral /\ pos.supply = Own.supply
        /\ \A b \in Assets \ {a} : pos.liabilities[b] = Own.liabilities[b]
    BY <1>1, <1>3, RequestFinds DEF PositionsType
  <1> HIDE DEF r, pos
  <1>8. Follows(old, r, Own, pos, a)
    BY <1>1, <1>3, <1>4, <1>7, RequestFinds DEF Follows
  <1>9. Worth(pos, a, r) - Worth(Own, a, old) <= amount - refund
    <2> DEFINE x == Own.collateral[a] + Own.supply[a]
    <2>1. x \in Nat
      BY <1>1, RequestFinds
    <2>2. /\ Worth(pos, a, r) = ToAssetFromB(old, x) - MulCeil(owed - m, old.d_rate, Scalar9)
          /\ Worth(Own, a, old) = ToAssetFromB(old, x) - MulCeil(owed, old.d_rate, Scalar9)
      BY <1>4, <1>7 DEF Worth, ToAssetFromB, ToAssetFromD
    <2> HIDE DEF x, n, old, owed
    <2>3. MulCeil(owed, old.d_rate, Scalar9) <= MulCeil(owed - m, old.d_rate, Scalar9) + n
      BY <1>1, <1>2, <1>3, CeilTakes, UsedFields, PoolReserveAssumption
    <2>4. owed - m \in Nat
      BY <1>1, <1>2, <1>3
    <2>5. /\ MulCeil(owed - m, old.d_rate, Scalar9) \in Nat
          /\ MulCeil(owed, old.d_rate, Scalar9) \in Nat
          /\ ToAssetFromB(old, x) \in Nat
      BY <1>2, <2>1, <2>4, MulCeilBounds, RedemptionPaid, UsedFields, PoolReserveAssumption
    <2> QED BY <1>3, <2>2, <2>3, <2>5 DEF n
  <1>10. Owed(r) <= Owed(old) + amount - refund
    BY <1>2, <1>3, <1>6, OwedInt
  <1>11. FALSE \in BOOLEAN
    OBVIOUS
  <1>12. /\ ~MayBorrow(status) => r.d_supply <= old.d_supply
         /\ ~MaySupply(status) => r.b_supply <= old.b_supply
    BY <1>3, <1>4
  <1>13. pos.liabilities[a] <= Own.liabilities[a] /\ pos.collateral[a] >= Own.collateral[a]
    BY <1>1, <1>3, <1>7, RequestFinds
  <1>14. Lawful(a, r, pos, amount, refund, FALSE)
    BY <1>1, <1>4, <1>8, <1>9, <1>10, <1>12, <1>13 DEF Lawful
  <1> QED BY <1>1, <1>3, <1>6, <1>7, <1>11, <1>14, LawfulParts

\* Requests are made in a running submit.
LEMMA RequestRuns ==
    ASSUME NEW a \in Assets, NEW amount \in Amounts,
           \/ Supply(a, amount) \/ Withdraw(a, amount)
           \/ SupplyCollateral(a, amount) \/ WithdrawCollateral(a, amount)
           \/ Borrow(a, amount) \/ Repay(a, amount)
    PROVE  tx # NoTx
  BY DEF Supply, Withdraw, SupplyCollateral, WithdrawCollateral, Borrow, Repay, InRequest

\* Every request is a lawful one.
LEMMA RequestsLawful ==
    ASSUME CopyTyped, NEW a \in Assets, NEW amount \in Amounts,
           \/ Supply(a, amount) \/ Withdraw(a, amount)
           \/ SupplyCollateral(a, amount) \/ WithdrawCollateral(a, amount)
           \/ Borrow(a, amount) \/ Repay(a, amount)
    PROVE  LawfulRequest(a)
  <1>0. amount \in Nat
    BY LendingAssumption
  <1>1. CASE Supply(a, amount)
    BY <1>0, <1>1, AddBTokensLawful DEF Supply
  <1>2. CASE SupplyCollateral(a, amount)
    BY <1>0, <1>2, AddBTokensLawful DEF SupplyCollateral
  <1>3. CASE Withdraw(a, amount)
    BY <1>0, <1>3, RedeemLawful DEF Withdraw
  <1>4. CASE WithdrawCollateral(a, amount)
    BY <1>0, <1>4, RedeemLawful DEF WithdrawCollateral
  <1>5. CASE Borrow(a, amount)
    BY <1>0, <1>5, BorrowLawful
  <1>6. CASE Repay(a, amount)
    BY <1>0, <1>6, RepayLawful
  <1> QED BY <1>1, <1>2, <1>3, <1>4, <1>5, <1>6
-----------------------------------------------------------------------------
\* A reserve accrued in this ledger is loaded as it is.
LEMMA AccruedOnce ==
    ASSUME NEW r \in Used
    PROVE  Accrued(r, Scalar9) = r
  <1>1. MulCeil(Scalar9, r.d_rate, Scalar9) = r.d_rate
    BY WholeShare, UsedFields, PoolReserveAssumption
  <1>2. AccruedInterest(r, Scalar9) = 0
    <2>1. AccruedInterest(r, Scalar9) = TotalLiabilities(r) - TotalLiabilities(r)
      BY <1>1 DEF AccruedInterest, TotalLiabilities, ToAssetFromD
    <2> QED BY <2>1, TotalsNat
  <1>3. [r EXCEPT !.d_rate = r.d_rate] = r
    BY UsedFields DEF Used, Reserves
  <1> QED BY <1>1, <1>2, <1>3 DEF Accrued

\* What is stored of typed reserves is typed, and accrued at this ledger.
LEMMA StoredTyped ==
    ASSUME Typed, NEW res \in [Assets -> Used], NEW stored \in SUBSET Assets,
           Stored(res, stored)
    PROVE  /\ reserve' \in [Assets -> Used] /\ accrual' \in [Assets -> Accruals]
           /\ \A a \in Assets :
                /\ reserve'[a] = IF a \in stored THEN res[a] ELSE reserve[a]
                /\ accrual'[a] = IF a \in stored THEN Scalar9 ELSE accrual[a]
                /\ Load(a)' = IF a \in stored THEN res[a] ELSE Load(a)
  <1>1. /\ reserve' \in [Assets -> Used] /\ accrual' \in [Assets -> Accruals]
        /\ \A a \in Assets : /\ reserve'[a] = IF a \in stored THEN res[a] ELSE reserve[a]
                             /\ accrual'[a] = IF a \in stored THEN Scalar9 ELSE accrual[a]
    BY LendingAssumption DEF Typed, Stored
  <1>2. ASSUME NEW a \in Assets PROVE Load(a)' = IF a \in stored THEN res[a] ELSE Load(a)
    BY <1>1, AccruedOnce DEF Load
  <1> QED BY <1>1, <1>2

\* What is settled of an asset once the running submit has moved what it moved at once.
HeldSettled(a) == tx.held[a] + unpaid[a] - undelivered[a]

\* A submit that ends settles what it sent and what it was due, whichever transfers
\* fail, and stores its copies: a reserve it did not touch is as it was loaded.
LEMMA SettleMoves ==
    ASSUME Typed, NEW unsent, NEW stuck, Settle(unsent, stuck),
           \A a \in Assets : a \notin tx.stored => tx.res[a] = Load(a)
    PROVE  /\ tx # NoTx /\ tx \in Transactions /\ tx' = NoTx /\ positions' = tx.holders
           /\ balance' \in [Assets -> Nat] /\ unpaid' \in [Assets -> Nat]
           /\ undelivered' \in [Assets -> Nat]
           /\ \A a \in Assets : /\ Settled(a)' = HeldSettled(a) + tx.sent[a] - tx.due[a]
                                /\ Load(a)' = tx.res[a]
                                /\ HeldSettled(a) \in Int
           /\ reserve' \in [Assets -> Used] /\ accrual' \in [Assets -> Accruals]
           /\ \A a \in Assets :
                reserve'[a] = IF a \in tx.stored THEN tx.res[a] ELSE reserve[a]
  <1> DEFINE received == [a \in Assets |-> IF a \in unsent THEN 0 ELSE tx.sent[a]]
             paid == [a \in Assets |->
                        IF a \in stuck \/ tx.due[a] > tx.held[a] + received[a]
                        THEN 0 ELSE tx.due[a]]
  <1>1. /\ tx # NoTx /\ tx \in Transactions /\ tx' = NoTx
        /\ Stored(tx.res, tx.stored) /\ positions' = tx.holders
    BY DEF Typed, Settle
  <1>2. /\ balance' = [a \in Assets |-> tx.held[a] + received[a] - paid[a]]
        /\ unpaid' = [a \in Assets |-> unpaid[a] + tx.sent[a] - received[a]]
        /\ undelivered' = [a \in Assets |-> undelivered[a] + tx.due[a] - paid[a]]
    BY DEF Settle
  <1>3. ASSUME NEW a \in Assets
        PROVE  /\ received[a] \in Nat /\ received[a] <= tx.sent[a]
               /\ paid[a] \in Nat /\ paid[a] <= tx.due[a]
               /\ paid[a] <= tx.held[a] + received[a]
               /\ balance[a] \in Nat /\ unpaid[a] \in Nat /\ undelivered[a] \in Nat
               /\ tx.sent[a] \in Nat /\ tx.due[a] \in Nat /\ tx.held[a] \in Nat
    <2>1. /\ balance[a] \in Nat /\ unpaid[a] \in Nat /\ undelivered[a] \in Nat
          /\ tx.sent[a] \in Nat /\ tx.due[a] \in Nat /\ tx.held[a] \in Nat
      BY <1>1 DEF Typed, Transactions
    <2>2. received[a] \in Nat /\ received[a] <= tx.sent[a]
      BY <2>1
    <2> HIDE DEF received
    <2>3. paid[a] \in Nat /\ paid[a] <= tx.due[a] /\ paid[a] <= tx.held[a] + received[a]
      BY <2>1, <2>2
    <2> QED BY <2>1, <2>2, <2>3
  <1> HIDE DEF received, paid
  <1>4. /\ balance' \in [Assets -> Nat] /\ unpaid' \in [Assets -> Nat]
        /\ undelivered' \in [Assets -> Nat]
    BY <1>2, <1>3
  <1>5. ASSUME NEW a \in Assets
        PROVE  Settled(a)' = HeldSettled(a) + tx.sent[a] - tx.due[a] /\ HeldSettled(a) \in Int
    BY <1>2, <1>3 DEF Settled, HeldSettled
  <1>6. /\ reserve' \in [Assets -> Used] /\ accrual' \in [Assets -> Accruals]
        /\ \A a \in Assets :
             /\ reserve'[a] = IF a \in tx.stored THEN tx.res[a] ELSE reserve[a]
             /\ Load(a)' = IF a \in tx.stored THEN tx.res[a] ELSE Load(a)
    BY <1>1, StoredTyped DEF Transactions
  <1>7. \A a \in Assets : Load(a)' = tx.res[a]
    BY <1>1, <1>6
  <1> QED BY <1>1, <1>4, <1>5, <1>6, <1>7

\* In Lending nothing is moved before the end.
LEMMA SettledAsHeld ==
    ASSUME IInv, tx # NoTx
    PROVE  /\ \A a \in Assets : HeldSettled(a) = Settled(a)
           /\ Typed /\ \A a \in Assets : a \notin tx.stored => tx.res[a] = Load(a)
  BY DEF IInv, CopyKept, CopyLoaded, HeldSettled, Settled

\* So the end of a submit keeps the invariant.
LEMMA CommitKeeps ==
    ASSUME IInv, NEW unsent, NEW stuck, Commit(unsent, stuck)
    PROVE  IInv'
  <1>1. Settle(unsent, stuck) /\ UNCHANGED statusVars /\ UNCHANGED live
    BY DEF Commit, Settle
  <1>5. Typed /\ \A a \in Assets : a \notin tx.stored => tx.res[a] = Load(a)
    BY <1>1, SettledAsHeld DEF Settle
  <1>2. Typed'
    <2>1. positions' \in [Holders -> PositionsType]
      BY <1>1, <1>5, SettleMoves DEF Transactions
    <2> QED BY <1>1, <1>5, <2>1, SettleMoves DEF IInv, Typed, StatusTypeOK, statusVars
  <1>3. ASSUME NEW a \in Assets PROVE Sound(a)'
    <2>1. /\ tx # NoTx /\ tx \in Transactions /\ Settled(a) \in Int
          /\ Settled(a)' = Settled(a) + tx.sent[a] - tx.due[a]
          /\ positions' = tx.holders
          /\ reserve'[a] = IF a \in tx.stored THEN tx.res[a] ELSE reserve[a]
      <3>1. tx # NoTx /\ HeldSettled(a) = Settled(a)
        BY <1>1, SettledAsHeld DEF Settle
      <3> QED BY <1>1, <1>5, <3>1, SettleMoves
    <2>2. CopySound(a) /\ CopyLoaded(a)
      BY <2>1 DEF IInv, CopyKept
    <2>3. CASE a \in tx.stored
      BY <2>1, <2>2, <2>3 DEF Sound, CopySound, Matches
    <2>4. CASE a \notin tx.stored
      <3>1. tx.res[a] = Load(a) /\ tx.sent[a] = 0 /\ tx.due[a] = 0
        BY <2>2, <2>4 DEF CopyLoaded
      <3>2. Settled(a)' = Settled(a) /\ reserve'[a] = reserve[a]
        BY <2>1, <2>4, <3>1
      <3>3. Matches(reserve[a], tx.holders, a)
        BY <2>2, <3>1, LoadKeeps DEF CopySound, Matches, IInv
      <3>4. Owed(reserve[a]) <= Settled(a)
        BY DEF IInv, Sound
      <3> QED BY <2>1, <3>2, <3>3, <3>4 DEF Sound, Matches
    <2> QED BY <2>3, <2>4
  <1>4. tx' = NoTx
    BY <1>1, <1>5, SettleMoves
  <1> QED BY <1>2, <1>3, <1>4 DEF IInv, CopyKept

\* Bad debt only changes who owes it, and accrues the reserves it is of.
LEMMA BadDebtMoves ==
    ASSUME Typed, \A a \in Assets : Matches(reserve[a], positions, a),
           NEW user \in Users, BadDebt(user)
    PROVE  /\ Typed' /\ tx = NoTx /\ UNCHANGED <<statusVars, live, tx, tokens>>
           /\ \A a \in Assets :
                /\ Matches(reserve'[a], positions', a) /\ Load(a)' = Load(a)
                /\ Settled(a)' = Settled(a) /\ Settled(a) \in Int
                /\ Owed(reserve'[a]) <= Owed(reserve[a])
                /\ Owed(reserve'[a]) \in Int /\ Owed(reserve[a]) \in Int
                /\ positions'[Backstop].liabilities[a]
                     = positions[Backstop].liabilities[a] + positions[user].liabilities[a]
           /\ positions'[user].liabilities = Zero
  <1> DEFINE res == [a \in Assets |-> Load(a)]
             debt == positions[user].liabilities
             owing == {a \in Assets : debt[a] > 0}
             old == positions[Backstop]
             sum == [a \in Assets |-> old.liabilities[a] + debt[a]]
             cleared == [positions[user] EXCEPT !.liabilities = Zero]
             laden == [old EXCEPT !.liabilities = sum]
             between == [positions EXCEPT ![user] = cleared]
  <1>1. /\ Typed /\ tx = NoTx /\ Stored(res, owing)
        /\ UNCHANGED <<statusVars, live, tx, tokens>>
        /\ positions' = [positions EXCEPT
               ![user].liabilities = Zero,
               ![Backstop].liabilities = [a \in Assets |-> @[a] + debt[a]]]
    BY DEF BadDebt
  <1>2. res \in [Assets -> Used] /\ owing \in SUBSET Assets
    BY <1>1, LoadKeeps
  <1>3. user \in Holders /\ Backstop \in Holders /\ user # Backstop
    BY LendingAssumption DEF Holders
  <1>4. positions' = [between EXCEPT ![Backstop] = laden]
    BY <1>1, <1>3 DEF Typed
  <1>5. /\ positions[user] \in PositionsType /\ old \in PositionsType
        /\ debt \in [Assets -> Nat] /\ old.liabilities \in [Assets -> Nat]
    BY <1>1, <1>3 DEF Typed, PositionsType
  <1>6. Zero \in [Assets -> Nat] /\ sum \in [Assets -> Nat]
    BY <1>5 DEF Zero
  <1>7. /\ cleared \in PositionsType /\ cleared.liabilities = Zero
        /\ cleared.collateral = positions[user].collateral
        /\ cleared.supply = positions[user].supply
        /\ laden \in PositionsType /\ laden.liabilities = sum
        /\ laden.collateral = old.collateral /\ laden.supply = old.supply
    <2> HIDE DEF sum, old, debt
    <2> QED BY <1>5, <1>6 DEF PositionsType
  <1> HIDE DEF cleared, laden
  <1>8. /\ between \in [Holders -> PositionsType] /\ between[Backstop] = old
        /\ positions' \in [Holders -> PositionsType]
    BY <1>1, <1>3, <1>4, <1>7 DEF Typed
  <1> HIDE DEF between
  <1>9. Typed'
    BY <1>1, <1>2, <1>8, StoredTyped DEF Typed, tokens, statusVars, StatusTypeOK
  <1>10. ASSUME NEW a \in Assets
         PROVE  /\ Matches(reserve'[a], positions', a) /\ Load(a)' = Load(a)
                /\ Settled(a)' = Settled(a) /\ Settled(a) \in Int
                /\ Owed(reserve'[a]) <= Owed(reserve[a])
                /\ Owed(reserve'[a]) \in Int /\ Owed(reserve[a]) \in Int
    <2>1. Settled(a)' = Settled(a) /\ Settled(a) \in Int
      BY <1>1 DEF Settled, tokens, Typed
    <2>2. reserve'[a] = (IF a \in owing THEN Load(a) ELSE reserve[a]) /\ Load(a)' = Load(a)
      BY <1>1, <1>2, StoredTyped
    <2>3. Owed(Load(a)) \in Int /\ Owed(reserve[a]) \in Int
      BY <1>1, LoadKeeps, OwedInt DEF Typed
    <2>4. Owed(reserve'[a]) <= Owed(reserve[a]) /\ Owed(reserve'[a]) \in Int
      BY <1>1, <2>2, <2>3, LoadKeeps
    <2>5. /\ Supplied(between, a) = Supplied(positions, a)
                + (cleared.collateral[a] + cleared.supply[a])
                - (positions[user].collateral[a] + positions[user].supply[a])
          /\ Owing(between, a) = Owing(positions, a) + cleared.liabilities[a]
                                   - positions[user].liabilities[a]
      <3>1. /\ between \in [Holders -> PositionsType] /\ between[user] = cleared
            /\ \A k \in Holders \ {user} : between[k] = positions[k]
        BY <1>1, <1>3, <1>7 DEF Typed, between
      <3>2. positions \in [Holders -> PositionsType] /\ cleared \in PositionsType
        BY <1>1, <1>7 DEF Typed
      <3> QED BY <1>3, <3>1, <3>2, TotalsFollow
    <2>6. /\ Supplied(positions', a) = Supplied(between, a)
                + (laden.collateral[a] + laden.supply[a]) - (old.collateral[a] + old.supply[a])
          /\ Owing(positions', a) = Owing(between, a) + laden.liabilities[a]
                                      - old.liabilities[a]
      <3> HIDE DEF old, sum
      <3>1. laden \in PositionsType
        BY <1>7
      <3> DEFINE new == [between EXCEPT ![Backstop] = laden]
      <3>2. /\ Supplied(new, a) = Supplied(between, a)
                 + (laden.collateral[a] + laden.supply[a])
                 - (between[Backstop].collateral[a] + between[Backstop].supply[a])
            /\ Owing(new, a) = Owing(between, a) + laden.liabilities[a]
                                 - between[Backstop].liabilities[a]
        <4>1. /\ new \in [Holders -> PositionsType] /\ new[Backstop] = laden
              /\ \A k \in Holders \ {Backstop} : new[k] = between[k]
          BY <1>3, <1>8, <3>1
        <4> HIDE DEF new
        <4> QED BY <1>3, <1>8, <3>1, <4>1, TotalsFollow
      <3>3. positions' = new
        BY <1>4
      <3> HIDE DEF new
      <3> QED BY <1>8, <3>2, <3>3
    <2>7. /\ old.collateral[a] \in Nat /\ old.supply[a] \in Nat /\ old.liabilities[a] \in Nat
          /\ positions[user].collateral[a] \in Nat /\ positions[user].supply[a] \in Nat
          /\ debt[a] \in Nat /\ laden.liabilities[a] = old.liabilities[a] + debt[a]
          /\ cleared.liabilities[a] = 0
      BY <1>5, <1>7 DEF PositionsType, Zero
    <2>8. /\ reserve[a].b_supply = Supplied(positions, a)
          /\ reserve[a].d_supply = Owing(positions, a)
          /\ reserve[a].b_supply \in Nat /\ reserve[a].d_supply \in Nat
      BY <1>1, UsedFields DEF Matches, Typed
    <2>9. Supplied(positions', a) = reserve[a].b_supply
      <3> HIDE DEF old
      <3> QED BY <1>7, <2>5, <2>6, <2>7, <2>8
    <2>10. Owing(positions', a) = reserve[a].d_supply
      <3> HIDE DEF old
      <3> QED BY <2>5, <2>6, <2>7, <2>8 DEF debt
    <2>11. /\ reserve'[a].b_supply = reserve[a].b_supply
           /\ reserve'[a].d_supply = reserve[a].d_supply
      BY <1>1, <2>2, LoadKeeps
    <2> QED BY <2>1, <2>2, <2>3, <2>4, <2>9, <2>10, <2>11 DEF Matches
  <1>11. /\ positions'[user].liabilities = Zero
         /\ \A a \in Assets : positions'[Backstop].liabilities[a]
              = positions[Backstop].liabilities[a] + positions[user].liabilities[a]
    <2>1. positions'[user] = cleared /\ positions'[Backstop] = laden
      BY <1>1, <1>3, <1>4, <1>8 DEF between, Typed
    <2> QED BY <1>7, <2>1
  <1> QED BY <1>1, <1>9, <1>10, <1>11

\* Bad debt keeps the invariant.
LEMMA BadDebtKeeps ==
    ASSUME IInv, NEW user \in Users, BadDebt(user)
    PROVE  IInv'
  <1>1. Typed /\ \A a \in Assets : Matches(reserve[a], positions, a)
    BY DEF IInv, Sound
  <1>2. /\ Typed' /\ tx = NoTx /\ tx' = tx
        /\ \A a \in Assets : /\ Matches(reserve'[a], positions', a)
                             /\ Settled(a)' = Settled(a) /\ Settled(a) \in Int
                             /\ Owed(reserve'[a]) <= Owed(reserve[a])
                             /\ Owed(reserve'[a]) \in Int /\ Owed(reserve[a]) \in Int
    BY <1>1, BadDebtMoves
  <1>3. ASSUME NEW a \in Assets PROVE Sound(a)'
    <2>1. Owed(reserve[a]) <= Settled(a)
      BY DEF IInv, Sound
    <2>2. Owed(reserve'[a]) <= Settled(a)'
      BY <1>2, <2>1
    <2> QED BY <1>2, <2>2 DEF Sound, Matches
  <1> QED BY <1>2, <1>3 DEF IInv, CopyKept

\* Nothing else touches the reserves, the positions or the tokens.
LEMMA OtherKeeps ==
    ASSUME IInv,
           \/ \E later \in [Assets -> Accruals] : CloseLedger(later)
           \/ PassDeploymentSeq \/ ChangeStatus
           \/ UNCHANGED vars
    PROVE  IInv'
  <1>1. UNCHANGED <<reserve, positions, tx, tokens>>
    BY DEF CloseLedger, PassDeploymentSeq, ChangeStatus, vars
  <1>2. CASE tx = NoTx
    <2>1. accrual' \in [Assets -> Accruals] /\ live' \in BOOLEAN
      BY DEF IInv, Typed, CloseLedger, PassDeploymentSeq, ChangeStatus, vars
    <2>2. StatusTypeOK'
      BY StatusTypeStep DEF IInv, Typed, CloseLedger, PassDeploymentSeq, ChangeStatus, vars
    <2>3. \A a \in Assets : Sound(a)'
      BY <1>1 DEF IInv, Sound, Settled, tokens
    <2> QED BY <1>1, <1>2, <2>1, <2>2, <2>3 DEF IInv, Typed, CopyKept, tokens
  <1>3. CASE tx # NoTx
    <2>1. UNCHANGED <<statusVars, reserve, accrual, positions, live, tx, tokens>>
      BY <1>3 DEF CloseLedger, PassDeploymentSeq, ChangeStatus, vars
    <2>2. UNCHANGED <<status, backstop>>
      BY <2>1 DEF statusVars
    <2> QED BY <2>1, <2>2 DEF IInv, Typed, StatusTypeOK, Sound, CopyKept, CopySound,
                              CopyLoaded, CopyFair, Load, Settled, tokens
  <1> QED BY <1>2, <1>3
-----------------------------------------------------------------------------
\* One step per action.
LEMMA NextIInv == IInv /\ [Next]_vars => IInv'
  <1> SUFFICES ASSUME IInv, [Next]_vars PROVE IInv'
    OBVIOUS
  <1>1. ASSUME NEW from \in Users, Begin(from) PROVE IInv'
    BY <1>1, BeginKeeps
  <1>2. ASSUME NEW a \in Assets, NEW amount \in Amounts,
               \/ Supply(a, amount) \/ Withdraw(a, amount)
               \/ SupplyCollateral(a, amount) \/ WithdrawCollateral(a, amount)
               \/ Borrow(a, amount) \/ Repay(a, amount)
        PROVE  IInv'
    <2>1. LawfulRequest(a)
      <3>1. CopyTyped
        BY <1>2, RequestRuns DEF IInv, Typed, CopyKept, CopySound, CopyTyped
      <3> QED BY <1>2, <3>1, RequestsLawful
    <2> QED BY <2>1, RequestKeeps
  <1>3. ASSUME NEW unsent \in Failures, NEW stuck \in Failures, Commit(unsent, stuck)
        PROVE  IInv'
    BY <1>3, CommitKeeps
  <1>4. CASE Revert
    BY <1>4, DropKeeps DEF Revert
  <1>5. ASSUME NEW user \in Users, BadDebt(user) PROVE IInv'
    BY <1>5, BadDebtKeeps
  <1>6. CASE \/ \E later \in [Assets -> Accruals] : CloseLedger(later)
             \/ PassDeploymentSeq \/ ChangeStatus
             \/ UNCHANGED vars
    BY <1>6, OtherKeeps
  <1> QED BY <1>1, <1>2, <1>3, <1>4, <1>5, <1>6 DEF Next

\* The strengthened invariant holds in every reachable state.
LEMMA InductiveInvariant == Spec => []IInv
  BY InitIInv, NextIInv, PTL DEF Spec
-----------------------------------------------------------------------------
\* Which steps write what the action properties are about: the end of a submit, the
\* transfer of bad debt, and no other.
LEMMA Writers ==
    ASSUME [Next]_vars
    PROVE  \/ UNCHANGED <<reserve, positions, accrual, tokens>>
           \/ \E unsent, stuck \in Failures : Commit(unsent, stuck)
           \/ \E user \in Users : BadDebt(user)
           \/ tx = NoTx /\ UNCHANGED <<reserve, positions, tokens>>
  <1>1. ASSUME NEW a \in Assets, NEW amount \in Amounts,
               \/ Supply(a, amount) \/ Withdraw(a, amount)
               \/ SupplyCollateral(a, amount) \/ WithdrawCollateral(a, amount)
               \/ Borrow(a, amount) \/ Repay(a, amount)
        PROVE  UNCHANGED <<reserve, positions, accrual, tokens>>
    BY <1>1 DEF Supply, SupplyCollateral, Withdraw, WithdrawCollateral, Borrow, Repay,
                AddBTokens, Redeem, RemoveBTokens, AddLiabilities, RemoveLiabilities,
                Request
  <1>2. CASE \/ \E from \in Users : Begin(from)
             \/ Revert
             \/ UNCHANGED vars
    BY <1>2 DEF Begin, Revert, vars
  <1>3. CASE \/ \E later \in [Assets -> Accruals] : CloseLedger(later)
             \/ PassDeploymentSeq \/ ChangeStatus
    BY <1>3 DEF CloseLedger, PassDeploymentSeq, ChangeStatus
  <1> QED BY <1>1, <1>2, <1>3 DEF Next

\* What a step may do to a reserve: it keeps it, loads it, or ends a submit with it.
LEMMA ReserveStep ==
    ASSUME IInv, [Next]_vars, NEW a \in Assets
    PROVE  /\ reserve'[a].b_rate >= reserve[a].b_rate
           /\ reserve'[a].d_rate >= reserve[a].d_rate
           /\ ~MayBorrow(status) => reserve'[a].d_supply <= reserve[a].d_supply
           /\ ~MaySupply(status) => reserve'[a].b_supply <= reserve[a].b_supply
  <1>1. Typed /\ reserve[a] \in Used /\ Load(a) \in Used
    BY LoadKeeps DEF IInv, Typed
  <1>2. \/ reserve'[a] = reserve[a]
        \/ reserve'[a] = Load(a)
        \/ tx # NoTx /\ reserve'[a] = tx.res[a]
    <2>1. ASSUME NEW unsent \in Failures, NEW stuck \in Failures, Commit(unsent, stuck)
          PROVE  tx # NoTx /\ (reserve'[a] = reserve[a] \/ reserve'[a] = tx.res[a])
      BY <2>1 DEF Commit, Settle, Stored
    <2>2. ASSUME NEW user \in Users, BadDebt(user)
          PROVE  reserve'[a] = reserve[a] \/ reserve'[a] = Load(a)
      BY <2>2 DEF BadDebt, Stored
    <2> QED BY <2>1, <2>2, Writers
  <1>3. CASE reserve'[a] = reserve[a]
    BY <1>1, <1>3, UsedFields
  <1>4. CASE reserve'[a] = Load(a)
    BY <1>1, <1>4, LoadKeeps, UsedFields
  <1>5. CASE tx # NoTx /\ reserve'[a] = tx.res[a]
    BY <1>1, <1>5, LoadKeeps, UsedFields DEF IInv, CopyKept, CopyLoaded
  <1> QED BY <1>2, <1>3, <1>4, <1>5

\* Every variable keeps its type: in particular the pool never pays out more than it
\* holds, and no position goes below zero.
THEOREM TypeCorrect == Spec => []TypeOK
  <1>1. Typed => TypeOK
    <2> SUFFICES ASSUME Typed PROVE TypeOK
      OBVIOUS
    <2>1. Used \subseteq Reserves
      BY DEF Used
    <2>2. tx = NoTx \/ tx \in TxType
      <3>1. Transactions \subseteq TxType
        BY <2>1 DEF Transactions, TxType
      <3> QED BY <3>1 DEF Typed
    <2>3. reserve \in [Assets -> Reserves]
      BY <2>1 DEF Typed
    <2> QED BY <2>2, <2>3 DEF Typed, TypeOK
  <1>2. IInv => TypeOK
    BY <1>1 DEF IInv
  <1> QED BY <1>2, InductiveInvariant, PTL

\* The supplies of a reserve are the sums of its holders' positions, for any number
\* of holders.
THEOREM SuppliesMatch == Spec => []SupplyMatchesPositions
  <1>1. IInv => SupplyMatchesPositions
    BY DEF IInv, Sound, Matches, SupplyMatchesPositions
  <1> QED BY <1>1, InductiveInvariant, PTL

\* In every state each reserve can pay what it owes, failed transfers counted as made.
THEOREM ReservesSolvent == Spec => []ReserveSolvent
  <1>1. IInv => ReserveSolvent
    <2> SUFFICES ASSUME IInv, NEW a \in Assets
                 PROVE  Settled(a) + TotalLiabilities(reserve[a])
                          >= TotalSupply(reserve[a]) + reserve[a].backstop_credit
      BY DEF ReserveSolvent
    <2>1. /\ reserve[a] \in Used /\ Settled(a) \in Int
          /\ Owed(reserve[a]) <= Settled(a)
      BY DEF IInv, Typed, Settled, Sound
    <2>2. /\ TotalLiabilities(reserve[a]) \in Nat /\ TotalSupply(reserve[a]) \in Nat
          /\ reserve[a].backstop_credit \in Nat
      BY <2>1, TotalsNat, UsedFields DEF Used, Reserves
    <2> QED BY <2>1, <2>2 DEF Owed
  <1> QED BY <1>1, InductiveInvariant, PTL

\* No sequence of submits, bad debt and ledgers lowers a rate of a reserve.
THEOREM RatesOnlyRise == Spec => RatesNeverFall
  <1>1. IInv /\ [Next]_vars
          => [\A a \in Assets : /\ reserve'[a].b_rate >= reserve[a].b_rate
                                /\ reserve'[a].d_rate >= reserve[a].d_rate]_vars
    BY ReserveStep
  <1> QED BY <1>1, InductiveInvariant, PTL DEF Spec, RatesNeverFall

\* While a pool is on-ice or frozen no step lets a reserve grow: the copy a submit
\* works on never outgrows what its status lets it, and the status is as it was
\* when the submit began.
THEOREM IcedOnlyShrink == Spec => IcedPoolsShrink
  <1>1. IInv /\ [Next]_vars
          => [\A a \in Assets :
                /\ ~MayBorrow(status) => reserve'[a].d_supply <= reserve[a].d_supply
                /\ ~MaySupply(status) => reserve'[a].b_supply <= reserve[a].b_supply]_vars
    BY ReserveStep
  <1> QED BY <1>1, InductiveInvariant, PTL DEF Spec, IcedPoolsShrink

\* Whatever its requests, a submit leaves its sender's positions worth at most what
\* they were worth plus the tokens it sends: the copy is fair at every request, and
\* what Commit stores is loaded again as the copy it was.
THEOREM SubmitsGainNothing == Spec => SubmitGainsNothing
  <1> DEFINE Gain == tx # NoTx /\ tx' = NoTx =>
               \A a \in Assets :
                 Worth(positions'[tx.from], a, Load(a)') - Worth(positions[tx.from], a, Load(a))
                   <= Settled(a)' - Settled(a)
  <1>1. IInv /\ [Next]_vars => [Gain]_vars
    <2> SUFFICES ASSUME IInv, [Next]_vars, tx # NoTx, tx' = NoTx, NEW a \in Assets
                 PROVE  Worth(positions'[tx.from], a, Load(a)')
                          - Worth(positions[tx.from], a, Load(a)) <= Settled(a)' - Settled(a)
      OBVIOUS
    <2>1. tx \in Transactions /\ tx.from \in Holders /\ Typed
      BY DEF IInv, Typed, Transactions, Holders
    <2>2. ASSUME NEW unsent \in Failures, NEW stuck \in Failures, Commit(unsent, stuck)
          PROVE  Worth(positions'[tx.from], a, Load(a)')
                   - Worth(positions[tx.from], a, Load(a)) <= Settled(a)' - Settled(a)
      <3>1. Settle(unsent, stuck)
        BY <2>2 DEF Commit
      <3>2. /\ positions' = tx.holders /\ Load(a)' = tx.res[a] /\ Settled(a) \in Int
            /\ Settled(a)' = Settled(a) + tx.sent[a] - tx.due[a]
        <4>1. HeldSettled(a) = Settled(a)
          BY SettledAsHeld
        <4> QED BY <3>1, <4>1, SettledAsHeld, SettleMoves
      <3>3. CopyFair(a)
        BY DEF IInv, CopyKept
      <3>4. tx.sent[a] \in Nat /\ tx.due[a] \in Nat
        BY <2>1 DEF Transactions
      <3>5. Settled(a)' - Settled(a) = tx.sent[a] - tx.due[a]
        BY <3>2, <3>4
      <3> QED BY <3>2, <3>3, <3>5 DEF CopyFair
    <2>3. CASE UNCHANGED <<reserve, positions, accrual, tokens>>
      <3>1. /\ Load(a)' = Load(a) /\ Settled(a)' = Settled(a) /\ positions' = positions
            /\ Settled(a) \in Int
        BY <2>1, <2>3 DEF Load, Settled, tokens, Typed
      <3>2. Worth(positions[tx.from], a, Load(a)) \in Int
        BY <2>1, LoadKeeps, WorthInt DEF Typed
      <3> QED BY <3>1, <3>2
    <2>4. ASSUME NEW user \in Users, BadDebt(user) PROVE FALSE
      BY <2>4 DEF BadDebt
    <2> QED BY <2>2, <2>3, <2>4, Writers
  <1> QED BY <1>1, InductiveInvariant, PTL DEF Spec, SubmitGainsNothing
=============================================================================
