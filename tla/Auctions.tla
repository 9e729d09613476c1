------------------------------- MODULE Auctions -------------------------------
(***************************************************************************)
(* The auctions of a pool (src/pool/src/auctions) over its lending core:   *)
(* the liquidation of a user, the sale of the backstop's bad debt for      *)
(* backstop tokens, and of the interest credited to the backstop. Quotes   *)
(* are created by anybody and filled, in parts, by requests of a submit.   *)
(* An amount of 0 in a bid or lot stands for an absent entry of its map.   *)
(***************************************************************************)
EXTENDS Lending

CONSTANTS BackstopToken, \* the LP token
          Ramp,          \* 200: blocks in which the lot, then the bid, is scaled
          Hundred,       \* 100
          Percents,      \* percentages asked for
          Waits,         \* ledgers that may close before the next call
          Prices,        \* of each asset, load_price
          Premium,       \* 1_4000000
          MinHf, MaxHf,  \* 1_0300000 and 1_1500000
          MinInterest,   \* 200
          Critical,      \* 0_0000003
          LpBlnd, LpUsdc,\* what a backstop token holds of each
          NoAuction      \* an absent entry

Sold == Assets \cup {BackstopToken}
Keys == ({"user_liquidation"} \X Users) \cup ({"bad_debt", "interest"} \X {Backstop})
Liquidation(user) == <<"user_liquidation", user>>
BadDebtSale == <<"bad_debt", Backstop>>
InterestSale == <<"interest", Backstop>>

\* An auction's age is sequence - block, until it is 2 * Ramp.
AuctionData == [bid : [Sold -> Nat], lot : [Sold -> Nat], age : -1..(2 * Ramp)]

ASSUME AuctionsAssumption ==
    /\ BackstopToken \notin Assets
    /\ Ramp \in Nat \ {0} /\ Hundred \in Nat \ {0}
    /\ Percents \subseteq 1..Hundred /\ Waits \subseteq Nat \ {0}
    /\ Prices \in [Assets -> Nat]
    /\ {Premium, MinHf, MaxHf, MinInterest, Critical, LpBlnd, LpUsdc} \subseteq Nat
ASSUME NoAuctionAssumption == NoAuction \notin AuctionData

VARIABLES auctions, \* AuctionData of each key, or NoAuction
          draft,    \* auctions, backstop and losses in a running submit, or NoTx
          lost      \* history: liabilities socialised, in underlying tokens

auctionVars == <<auctions, draft, lost>>
allVars == <<vars, auctionVars>>
-----------------------------------------------------------------------------
Nothing == [x \in Sold |-> 0]
Quoted(assets, amounts) == [x \in Sold |-> IF x \in assets THEN amounts[x] ELSE 0]
Named(amounts) == {a \in Assets : amounts[a] > 0}
NewAuction(bid, lot) == [bid |-> bid, lot |-> lot, age |-> -1]

\* The block modifiers of scale_auction.
PerBlock == Scalar7 \div Ramp
LotModifier(age) == IF age > Ramp THEN Scalar7 ELSE age * PerBlock
BidModifier(age) == IF age <= Ramp THEN Scalar7
                    ELSE IF age < 2 * Ramp THEN Scalar7 - (age - Ramp) * PerBlock
                    ELSE 0

Share(percent) == (percent * Scalar7) \div Hundred
BidPart(amount, percent) == MulCeil(amount, Share(percent), Scalar7)
LotPart(amount, percent) == MulFloor(amount, Share(percent), Scalar7)

\* (Mutant: the bid of a late fill is rounded down.)
ToFillBidDown(auction, percent) ==
    [bid |-> [x \in Sold |-> MulFloor(BidPart(auction.bid[x], percent),
                                      BidModifier(auction.age), Scalar7)],
     lot |-> [x \in Sold |-> MulFloor(LotPart(auction.lot[x], percent),
                                      LotModifier(auction.age), Scalar7)]]
\* scale_auction: what a fill of percent pays and receives, and what is left.
ToFill(auction, percent) ==
    [bid |-> [x \in Sold |-> MulCeil(BidPart(auction.bid[x], percent),
                                     BidModifier(auction.age), Scalar7)],
     lot |-> [x \in Sold |-> MulFloor(LotPart(auction.lot[x], percent),
                                      LotModifier(auction.age), Scalar7)]]
\* (Mutant: the whole quote is stored again.)
RemainingWhole(auction, percent) == auction
Remaining(auction, percent) ==
    LET bid == [x \in Sold |-> auction.bid[x] - BidPart(auction.bid[x], percent)]
        lot == [x \in Sold |-> auction.lot[x] - LotPart(auction.lot[x], percent)]
    IN  IF bid = Nothing /\ lot = Nothing THEN NoAuction
        ELSE [auction EXCEPT !.bid = bid, !.lot = lot]
-----------------------------------------------------------------------------
AuctionsInit == Init /\ auctions = [k \in Keys |-> NoAuction]
                     /\ draft = NoTx /\ lost = Zero

\* create_user_liq_auction_data, for Percents of a user's positions p.
IsHfOver(p, res, max) ==
    \/ LiabilityBase(p, res) = 0
    \/ HealthFactor(p, res) > MulCeil(OracleScalar, max, Scalar7)

\* The collateral a fill of percent is estimated to take, with half the margin
\* between collateral and liability factors as the incentive.
EstWithdrawn(p, res, percent) ==
    LET avg_cf == DivFloor(CollateralBase(p, res), CollateralRaw(p, res), OracleScalar)
        avg_lf == DivFloor(LiabilityBase(p, res), LiabilityRaw(p, res), OracleScalar)
        margin == OracleScalar - DivCeil(avg_cf, avg_lf, OracleScalar)
        incentive == DivCeil(margin, 2 * OracleScalar, OracleScalar) + OracleScalar
    IN  MulFloor(MulFloor(LiabilityRaw(p, res), (percent * OracleScalar) \div Hundred,
                          OracleScalar),
                 incentive, OracleScalar)

LiquidationQuote(p, res, percent) ==
    LET taken == AtMost(DivCeil(EstWithdrawn(p, res, percent), CollateralRaw(p, res),
                                OracleScalar), OracleScalar)
    IN  [lot |-> [a \in Assets |-> MulCeil(p.collateral[a], taken, OracleScalar)],
         bid |-> [a \in Assets |-> MulCeil(p.liabilities[a],
                                           (percent * OracleScalar) \div Hundred,
                                           OracleScalar)]]

\* rm_positions removes something of each entry, and no more than there is.
MayRemove(p, quote) ==
    \A a \in Assets : /\ quote.lot[a] <= p.collateral[a] /\ quote.bid[a] <= p.liabilities[a]
                      /\ p.collateral[a] > 0 => quote.lot[a] > 0
                      /\ p.liabilities[a] > 0 => quote.bid[a] > 0
Without(p, lot, bid) ==
    [p EXCEPT !.collateral = [a \in Assets |-> @[a] - lot[a]],
              !.liabilities = [a \in Assets |-> @[a] - bid[a]]]

\* A part must lead the user from too little collateral into the allowed band.
FairSize(p, res, percent) ==
    LET quote == LiquidationQuote(p, res, percent)
        after == Without(p, quote.lot, quote.bid)
    IN  IF percent = Hundred
        THEN EstWithdrawn(p, res, percent) >= CollateralRaw(p, res)
        ELSE /\ MayRemove(p, quote)
             /\ ~IsHfOver(after, res, MaxHf) /\ ~IsHfUnder(after, res, MinHf)

NewLiquidation(user, percent) ==
    LET p == positions[user]
        res == [a \in Assets |-> Load(a)]
        quote == LiquidationQuote(p, res, percent)
    IN  /\ tx = NoTx /\ auctions[Liquidation(user)] = NoAuction
        /\ LiabilityBase(p, res) >= CollateralBase(p, res)
        /\ CollateralRaw(p, res) > 0 /\ LiabilityRaw(p, res) > 0
        /\ FairSize(p, res, percent)
        /\ auctions' = [auctions EXCEPT ![Liquidation(user)] =
                          NewAuction(Quoted(Assets, quote.bid), Quoted(Assets, quote.lot))]
        /\ UNCHANGED <<vars, draft, lost>>

\* The backstop's LP token in the oracle's base: USDC is a fifth of it. Without
\* tokens, or USDC, in the pool's backstop the divisions panic.
BackstopTokenValue ==
    DivFloor(MulFloor(backstop.usdc, OracleScalar, Scalar7) * 5, backstop.tokens, Scalar7)
TokensWorth(value) ==
    DivFloor(MulFloor(value, Premium, Scalar7), BackstopTokenValue, Scalar7)
ValueOf(a, amount) == MulFloor(Prices[a], amount, Unit[a])

\* create_bad_debt_auction_data
NewBadDebtSale ==
    LET debt == positions[Backstop].liabilities
        value == SumFunction([a \in Assets |-> ValueOf(a, ToAssetFromD(Load(a), debt[a]))])
    IN  /\ tx = NoTx /\ auctions[BadDebtSale] = NoAuction
        /\ HasLiabilities(positions[Backstop]) /\ value > 0
        /\ backstop.tokens > 0 /\ BackstopTokenValue > 0
        /\ auctions' = [auctions EXCEPT ![BadDebtSale] =
               NewAuction(Quoted(Assets, debt),
                          [Nothing EXCEPT ![BackstopToken] =
                               AtMost(backstop.tokens, TokensWorth(value))])]
        /\ UNCHANGED <<vars, draft, lost>>

\* create_interest_auction_data; times counts how often each asset is listed,
\* which counts in the value but not in the lot.
NewInterestSale(times) ==
    LET credit(a) == Load(a).backstop_credit
        value == SumFunction([a \in Assets |-> times[a] * ValueOf(a, credit(a))])
    IN  /\ tx = NoTx /\ auctions[InterestSale] = NoAuction
        /\ value > MinInterest * OracleScalar
        /\ backstop.tokens > 0 /\ BackstopTokenValue > 0
        /\ auctions' = [auctions EXCEPT ![InterestSale] =
               NewAuction([Nothing EXCEPT ![BackstopToken] = TokensWorth(value)],
                          [x \in Sold |-> IF x \in Assets /\ times[x] > 0
                                          THEN credit(x) ELSE 0])]
        /\ UNCHANGED <<vars, draft, lost>>
-----------------------------------------------------------------------------
\* A submit, as in Lending; auctions and backstop change at once in the ledger
\* and are taken back by a panic, so that they are a draft until its end.
BeginSubmit(from) ==
    /\ Begin(from)
    /\ draft' = [auctions |-> auctions, backstop |-> backstop, lost |-> lost]
    /\ UNCHANGED <<auctions, lost>>

\* What every fill does: the share of the quote is moved between holder and the
\* filler, and the rest stored. At the block of the creation the block
\* difference underflows, which panics.
Fillable(k) == /\ InRequest /\ k[2] # tx.from
               /\ draft.auctions[k] # NoAuction /\ draft.auctions[k].age >= 0
Filled(k, percent, new_tx, new_backstop, socialised) ==
    /\ tx' = [new_tx EXCEPT !.count = @ + 1]
    /\ draft' = [auctions |-> [draft.auctions EXCEPT ![k] = Remaining(@, percent)],
                 backstop |-> new_backstop,
                 lost |-> [a \in Assets |-> draft.lost[a] + socialised[a]]]
    /\ UNCHANGED <<statusVars, reserve, accrual, positions, live, tokens, auctions, lost>>

With(p, lot, bid) ==
    [p EXCEPT !.collateral = [a \in Assets |-> @[a] + lot[a]],
              !.liabilities = [a \in Assets |-> @[a] + bid[a]]]
\* rm_positions of one holder and add_positions of the filler.
Moved(holder, lot, bid) ==
    [tx EXCEPT !.holders[holder] = Without(@, lot, bid),
               !.holders[tx.from] = With(@, lot, bid),
               !.stored = @ \cup Named(lot) \cup Named(bid)]
Holds(holder, lot, bid) ==
    \A a \in Assets : /\ lot[a] <= tx.holders[holder].collateral[a]
                      /\ bid[a] <= tx.holders[holder].liabilities[a]

\* (Mutant: the health of the filler is not checked.)
FillUserLiquidationUnchecked(user, percent) ==
    LET k == Liquidation(user)
        fill == ToFill(draft.auctions[k], percent)
    IN  /\ Fillable(k)
        /\ Holds(user, fill.lot, fill.bid)
        /\ Filled(k, percent, Moved(user, fill.lot, fill.bid), draft.backstop, Zero)
FillUserLiquidation(user, percent) ==
    LET k == Liquidation(user)
        fill == ToFill(draft.auctions[k], percent)
    IN  /\ Fillable(k)
        /\ Holds(user, fill.lot, fill.bid)
        /\ Filled(k, percent,
                  [Moved(user, fill.lot, fill.bid) EXCEPT !.check_health = TRUE],
                  draft.backstop, Zero)

\* What the backstop reports after a draw or donation: load_pool_backstop_data.
WithTokens(b, n) == [b EXCEPT !.tokens = n, !.blnd = MulFloor(n, LpBlnd, Scalar7),
                              !.usdc = MulFloor(n, LpUsdc, Scalar7)]

\* Once the backstop is below the critical threshold the debt it still owes is
\* removed; no rate changes.
Forgiven(r, debt) == [r EXCEPT !.d_supply = @ - debt]
Socialised(t) ==
    LET debt == t.holders[Backstop].liabilities
    IN  [t EXCEPT !.holders[Backstop].liabilities = Zero,
                  !.res = [a \in Assets |-> Forgiven(@[a], debt[a])],
                  !.stored = @ \cup Named(debt)]
FillBadDebt(percent) ==
    LET fill == ToFill(draft.auctions[BadDebtSale], percent)
        drawn == fill.lot[BackstopToken]
        moved == [Moved(Backstop, Zero, fill.bid) EXCEPT !.check_health = TRUE]
        left == moved.holders[Backstop].liabilities
        reported == WithTokens(draft.backstop, draft.backstop.tokens - drawn)
    IN  /\ Fillable(BadDebtSale)
        /\ Holds(Backstop, Zero, fill.bid)
        /\ drawn > 0 /\ drawn <= draft.backstop.tokens
        /\ IF Threshold(reported) < Critical
           THEN Filled(BadDebtSale, percent, Socialised(moved), reported,
                       [a \in Assets |-> ToAssetFromD(tx.res[a], left[a])])
           ELSE Filled(BadDebtSale, percent, moved, reported, Zero)

\* (Mutant: what is sold stays credited.)
CreditKept(r, sold) == r
CreditAfter(r, sold) == [r EXCEPT !.backstop_credit = @ - sold]

\* The tokens of the lot are transferred at once, and must be there. Once the bid
\* is scaled to nothing the lookup of its entry panics.
FillInterest(percent) ==
    LET fill == ToFill(draft.auctions[InterestSale], percent)
        donated == fill.bid[BackstopToken]
    IN  /\ Fillable(InterestSale)
        /\ donated > 0
        /\ \A a \in Assets : fill.lot[a] <= tx.held[a]
        /\ Filled(InterestSale, percent,
                  [tx EXCEPT !.res = [a \in Assets |-> CreditAfter(@[a], fill.lot[a])],
                             !.held = [a \in Assets |-> @[a] - fill.lot[a]],
                             !.stored = @ \cup Named(fill.lot)],
                  WithTokens(draft.backstop, draft.backstop.tokens + donated), Zero)

DeleteLiquidation ==
    /\ InRequest /\ MayBorrow(status)
    /\ draft.auctions[Liquidation(tx.from)] # NoAuction
    /\ tx' = [tx EXCEPT !.check_health = TRUE, !.count = @ + 1]
    /\ draft' = [draft EXCEPT !.auctions[Liquidation(tx.from)] = NoAuction]
    /\ UNCHANGED <<statusVars, reserve, accrual, positions, live, tokens, auctions, lost>>

LendingRequest == /\ \E a \in Assets, amount \in Amounts :
                       \/ Supply(a, amount) \/ Withdraw(a, amount)
                       \/ SupplyCollateral(a, amount) \/ WithdrawCollateral(a, amount)
                       \/ Borrow(a, amount) \/ Repay(a, amount)
                  /\ UNCHANGED auctionVars

CommitSubmit(unsent, stuck) ==
    /\ Settle(unsent, stuck)
    /\ auctions' = draft.auctions /\ lost' = draft.lost
    /\ backstop' = draft.backstop
    /\ draft' = NoTx
    /\ UNCHANGED status

RevertSubmit == Revert /\ draft' = NoTx /\ UNCHANGED <<auctions, lost>>
-----------------------------------------------------------------------------
\* n ledgers close; ages are told apart until the bid is scaled to nothing.
CloseLedgers(later, n) ==
    /\ CloseLedger(later)
    /\ auctions' = [k \in Keys |->
           IF auctions[k] = NoAuction THEN NoAuction
           ELSE [auctions[k] EXCEPT !.age = AtMost(@ + n, 2 * Ramp)]]
    /\ UNCHANGED <<draft, lost>>

\* External: a temporary entry that was not written for LEDGER_BUMP_SHARED.
Expire(k) ==
    /\ tx = NoTx
    /\ auctions[k] # NoAuction /\ auctions[k].age = 2 * Ramp
    /\ auctions' = [auctions EXCEPT ![k] = NoAuction]
    /\ UNCHANGED <<vars, draft, lost>>

Elsewhere == /\ \/ \E user \in Users : BadDebt(user)
                \/ PassDeploymentSeq
                \/ ChangeStatus
             /\ UNCHANGED auctionVars

AuctionsNext ==
    \/ \E user \in Users, percent \in Percents : NewLiquidation(user, percent)
    \/ NewBadDebtSale
    \/ \E times \in [Assets -> 0..2] : NewInterestSale(times)
    \/ \E from \in Users : BeginSubmit(from)
    \/ LendingRequest
    \/ \E user \in Users, percent \in Percents : FillUserLiquidation(user, percent)
    \/ \E percent \in Percents : FillBadDebt(percent)
    \/ \E percent \in Percents : FillInterest(percent)
    \/ DeleteLiquidation
    \/ \E unsent, stuck \in Failures : CommitSubmit(unsent, stuck)
    \/ RevertSubmit
    \/ \E later \in [Assets -> Accruals], n \in Waits : CloseLedgers(later, n)
    \/ \E k \in Keys : Expire(k)
    \/ Elsewhere

AuctionsSpec == AuctionsInit /\ [][AuctionsNext]_allVars
-----------------------------------------------------------------------------
\* Reserves pay their suppliers and the backstop but for the debt socialised: no
\* fill, at whatever block and in whatever parts, costs a reserve anything else.
SolventUpToLosses ==
    \A a \in Assets : Settled(a) + TotalLiabilities(reserve[a]) + lost[a]
                        >= TotalSupply(reserve[a]) + reserve[a].backstop_credit

\* An interest auction sells no more than the backstop is credited, also after
\* partial fills at different blocks: the credit of a reserve never turns negative.
InterestCovered ==
    auctions[InterestSale] # NoAuction =>
        \A a \in Assets : auctions[InterestSale].lot[a] <= Load(a).backstop_credit

\* Filling an auction in two parts in a block costs at least as much as filling
\* it at once, and buys at most as much.
FillingInPartsGainsNothing ==
    \A k \in Keys, percent \in Percents :
        tx = NoTx /\ auctions[k] # NoAuction /\ auctions[k].age >= 0 =>
            LET whole == ToFill(auctions[k], Hundred)
                part == ToFill(auctions[k], percent)
                rest == Remaining(auctions[k], percent)
                later == IF rest = NoAuction THEN [bid |-> Nothing, lot |-> Nothing]
                         ELSE ToFill(rest, Hundred)
            IN  \A x \in Sold : /\ part.bid[x] + later.bid[x] >= whole.bid[x]
                                /\ part.lot[x] + later.lot[x] <= whole.lot[x]

Lot(k, a) == IF auctions[k] = NoAuction THEN 0 ELSE auctions[k].lot[a]
Bid(k, a) == IF auctions[k] = NoAuction THEN 0 ELSE auctions[k].bid[a]

\* In the submits of others a user loses collateral, and is relieved of debt, only
\* out of the standing quote, which shrinks at least as much.
LiquidatedByQuote ==
    [][tx # NoTx /\ tx' = NoTx =>
         \A user \in Users \ {tx.from}, a \in Assets :
             LET k == Liquidation(user) IN
             /\ positions'[user].supply = positions[user].supply
             /\ positions'[user].collateral[a] <= positions[user].collateral[a]
             /\ positions'[user].liabilities[a] <= positions[user].liabilities[a]
             /\ positions[user].collateral[a] - positions'[user].collateral[a]
                  <= Lot(k, a) - Lot(k, a)'
             /\ positions[user].liabilities[a] - positions'[user].liabilities[a]
                  <= Bid(k, a) - Bid(k, a)']_allVars

\* Past DEPLOYMENT_SEQ a submit that borrows, takes collateral out, takes over debt
\* by a fill or deletes the liquidation of its own user leaves that user healthy,
\* judged by the reserves as stored and accrued after it.
SubmittersHealthy ==
    [][live /\ tx # NoTx /\ tx' = NoTx =>
         LET user == tx.from
             k == Liquidation(user)
         IN  \/ ~IsHfUnder(positions'[user], [a \in Assets |-> Load(a)'], MinHealth)
             \/ /\ auctions[k] # NoAuction => auctions'[k] # NoAuction
                /\ \A a \in Assets :
                     /\ positions'[user].liabilities[a] <= positions[user].liabilities[a]
                     /\ positions'[user].collateral[a] >= positions[user].collateral[a]]_allVars

\* The backstop's debt grows by the whole debt of a user without collateral, as
\* bad_debt promises, and shrinks by no more than the quote that sells it does;
\* whatever else is forgiven is counted as lost.
BackstopDebtAccounted ==
    [][positions'[Backstop] # positions[Backstop] =>
         \/ \E user \in Users :
              /\ ~HasCollateral(positions[user]) /\ ~HasLiabilities(positions'[user])
              /\ \A a \in Assets :
                   positions'[Backstop].liabilities[a]
                     = positions[Backstop].liabilities[a] + positions[user].liabilities[a]
         \/ \A a \in Assets :
              LET relieved == positions[Backstop].liabilities[a]
                                - positions'[Backstop].liabilities[a]
              IN  /\ relieved >= 0
                  /\ relieved > Bid(BadDebtSale, a) - Bid(BadDebtSale, a)'
                       => lost'[a] > lost[a]]_allVars
=============================================================================
