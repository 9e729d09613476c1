------------------------------- MODULE Lending -------------------------------
(***************************************************************************)
(* The lending core of a pool (src/pool/src/pool): submit with its supply, *)
(* withdraw, borrow and repay requests, and the transfer of bad debt to    *)
(* the backstop, under the status of the pool. One transaction runs at a   *)
(* time: Begin loads the pool, each request works on the copy in tx, and   *)
(* Commit writes it back and moves tokens, or Revert drops it (a panic).   *)
(* The requests that fill and delete auctions are those of Auctions.       *)
(***************************************************************************)
EXTENDS PoolReserve, PoolStatus, FiniteSets, Functions

CONSTANTS Users, Backstop,  \* holders of positions
          Assets,           \* underlying tokens with a reserve
          Amounts,          \* amounts a request may name
          Accruals,         \* factors calc_accrual may return
          CFactor, LFactor, MaxUtil, Unit, \* ReserveConfig; Unit is 10^decimals
          OracleScalar,     \* 10^decimals of the oracle
          MinHealth,        \* 1_0000100, scaled by Scalar7
          Failures,         \* sets of assets whose transfers fail together
          MaxRequests,      \* bound on the requests of a transaction
          NoTx              \* no transaction is running

Holders == Users \cup {Backstop}

ASSUME LendingAssumption ==
    /\ IsFiniteSet(Users) /\ IsFiniteSet(Assets) /\ Backstop \notin Users
    /\ Amounts \subseteq Nat /\ MaxRequests \in Nat
    /\ Scalar9 \in Accruals /\ \A f \in Accruals : f \in Nat /\ f >= Scalar9
    /\ CFactor \in [Assets -> 0..Scalar7] /\ LFactor \in [Assets -> 1..Scalar7]
    /\ MaxUtil \in [Assets -> 0..Scalar7] /\ Unit \in [Assets -> Nat \ {0}]
    /\ OracleScalar \in Nat \ {0} /\ MinHealth \in Nat
    /\ {} \in Failures /\ \A f \in Failures : f \subseteq Assets

VARIABLES reserve,    \* ReserveData of each asset
          accrual,    \* what calc_accrual returns for it at this ledger's time
          positions,  \* Positions of each holder
          live,       \* the ledger is past DEPLOYMENT_SEQ
          tx          \* the running submit, or NoTx

\* External: tokens the pool holds. History, read by no action: tokens of failed
\* transfers, to the pool (unpaid) and from it (undelivered).
VARIABLES balance, unpaid, undelivered

tokens == <<balance, unpaid, undelivered>>
vars == <<statusVars, reserve, accrual, positions, live, tx, tokens>>
-----------------------------------------------------------------------------
Zero == [a \in Assets |-> 0]
NoPositions == [liabilities |-> Zero, collateral |-> Zero, supply |-> Zero]

\* Reserve::load
Load(a) == Accrued(reserve[a], accrual[a])

HasLiabilities(p) == \E a \in Assets : p.liabilities[a] > 0
HasCollateral(p) == \E a \in Assets : p.collateral[a] > 0

\* PositionData::calculate_from_positions. A price would multiply each term;
\* the code sets asset_to_base to 1.
CollateralBase(p, res) ==
    SumFunction([a \in Assets |->
        MulFloor(1, MulFloor(ToAssetFromB(res[a], p.collateral[a]), CFactor[a], Scalar7),
                 Unit[a])])
LiabilityBase(p, res) ==
    SumFunction([a \in Assets |->
        MulCeil(1, DivCeil(ToAssetFromD(res[a], p.liabilities[a]), LFactor[a], Scalar7),
                Unit[a])])
CollateralRaw(p, res) ==
    SumFunction([a \in Assets |-> MulFloor(1, ToAssetFromB(res[a], p.collateral[a]), Unit[a])])
LiabilityRaw(p, res) ==
    SumFunction([a \in Assets |-> MulCeil(1, ToAssetFromD(res[a], p.liabilities[a]), Unit[a])])
HealthFactor(p, res) ==
    DivFloor(CollateralBase(p, res), LiabilityBase(p, res), OracleScalar)
IsHfUnder(p, res, min) ==
    /\ LiabilityBase(p, res) # 0
    /\ HealthFactor(p, res) < MulFloor(OracleScalar, min, Scalar7)
-----------------------------------------------------------------------------
Init == /\ StatusInit
        /\ reserve = [a \in Assets |-> NewReserve]
        /\ accrual = [a \in Assets |-> Scalar9]
        /\ positions = [h \in Holders |-> NoPositions]
        /\ live \in BOOLEAN
        /\ tx = NoTx
        /\ balance = Zero /\ unpaid = Zero /\ undelivered = Zero

\* execute_submit loads the pool and from's positions. The reserves are loaded
\* when first named; loading them all gives the same values, and only those in
\* stored are written back.
Begin(from) ==
    /\ tx = NoTx
    /\ tx' = [from |-> from, res |-> [a \in Assets |-> Load(a)], stored |-> {},
              holders |-> positions, held |-> balance, sent |-> Zero, due |-> Zero,
              check_health |-> FALSE, count |-> 0]
    /\ UNCHANGED <<statusVars, reserve, accrual, positions, live, tokens>>

InRequest == tx # NoTx /\ tx.count < MaxRequests
Own == tx.holders[tx.from]

\* The rest of a request on asset a: its reserve and from's position afterwards,
\* the tokens spender and pool are to send, and whether the health is checked.
Request(a, r, pos, sent, due, check) ==
    /\ tx' = [tx EXCEPT !.res[a] = r, !.holders[tx.from] = pos, !.stored = @ \cup {a},
                        !.sent[a] = @ + sent, !.due[a] = @ + due,
                        !.check_health = @ \/ check, !.count = @ + 1]
    /\ UNCHANGED <<statusVars, reserve, accrual, positions, live, tokens>>

\* User's add_ and remove_ functions, each with the rest of its request: they
\* refuse to mint or burn nothing and to burn more than the user holds. side is
\* "supply" or "collateral".
AddBTokens(side, a, minted, sent) ==
    /\ minted > 0
    /\ Request(a, [tx.res[a] EXCEPT !.b_supply = @ + minted],
               [Own EXCEPT ![side][a] = @ + minted], sent, 0, FALSE)
RemoveBTokens(side, a, burnt, due, check) ==
    /\ burnt > 0 /\ burnt <= Own[side][a]
    /\ Request(a, [tx.res[a] EXCEPT !.b_supply = @ - burnt],
               [Own EXCEPT ![side][a] = @ - burnt], 0, due, check)
\* (Both ask for the utilization afterwards, see Borrow and Repay.)
AddLiabilities(a, minted, due) ==
    LET r == [tx.res[a] EXCEPT !.d_supply = @ + minted] IN
    /\ minted > 0
    /\ UtilizationDefined(r) /\ Utilization(r) <= MaxUtil[a]
    /\ Request(a, r, [Own EXCEPT !.liabilities[a] = @ + minted], 0, due, TRUE)
RemoveLiabilities(a, burnt, sent, refund) ==
    LET r == [tx.res[a] EXCEPT !.d_supply = @ - burnt] IN
    /\ burnt > 0 /\ burnt <= Own.liabilities[a]
    /\ UtilizationDefined(r)
    /\ Request(a, r, [Own EXCEPT !.liabilities[a] = @ - burnt], sent, refund, FALSE)

Supply(a, amount) ==
    /\ InRequest /\ MaySupply(status)
    /\ AddBTokens("supply", a, ToBTokenDown(tx.res[a], amount), amount)

\* (Mutant: only supplies that are no collateral ask for the status.)
SupplyCollateralAlways(a, amount) ==
    /\ InRequest
    /\ AddBTokens("collateral", a, ToBTokenDown(tx.res[a], amount), amount)
SupplyCollateral(a, amount) ==
    /\ InRequest /\ MaySupply(status)
    /\ AddBTokens("collateral", a, ToBTokenDown(tx.res[a], amount), amount)

\* A withdrawal of more than the position burns it all.
Burnt(r, held, amount) == AtMost(ToBTokenUp(r, amount), held)
TokensOut(r, held, amount) ==
    IF ToBTokenUp(r, amount) > held THEN ToAssetFromB(r, held) ELSE amount
Redeem(side, a, amount, check) ==
    LET r == tx.res[a]
        held == Own[side][a]
    IN  RemoveBTokens(side, a, Burnt(r, held, amount), TokensOut(r, held, amount), check)

Withdraw(a, amount) == InRequest /\ Redeem("supply", a, amount, FALSE)

WithdrawCollateral(a, amount) == InRequest /\ Redeem("collateral", a, amount, TRUE)

\* The utilization the loan leads to must be within the reserve's maximum.
Borrow(a, amount) ==
    /\ InRequest /\ MayBorrow(status)
    /\ AddLiabilities(a, ToDTokenUp(tx.res[a], amount), amount)

\* What a repayment of more than the debt returns.
Refund(r, owed, amount) ==
    IF ToDTokenDown(r, amount) > owed THEN amount - ToAssetFromD(r, owed) ELSE 0

\* The event of a repayment reports the utilization, so that it panics on a
\* reserve without supply.
Repay(a, amount) ==
    /\ InRequest
    /\ LET r == tx.res[a]
           owed == Own.liabilities[a]
           refund == Refund(r, owed, amount)
       IN  /\ refund >= 0
           /\ RemoveLiabilities(a, AtMost(ToDTokenDown(r, amount), owed), amount, refund)

\* A request panics, or the checks of Commit do: nothing happened.
Revert == /\ tx # NoTx
          /\ tx' = NoTx
          /\ UNCHANGED <<statusVars, reserve, accrual, positions, live, tokens>>

\* Ledgers up to DEPLOYMENT_SEQ are replayed without the health check.
HealthOk == live /\ tx.check_health /\ HasLiabilities(Own)
              => ~IsHfUnder(Own, tx.res, MinHealth)

Stored(res, stored) ==
    /\ reserve' = [a \in Assets |-> IF a \in stored THEN res[a] ELSE reserve[a]]
    /\ accrual' = [a \in Assets |-> IF a \in stored THEN Scalar9 ELSE accrual[a]]

\* The end of execute_submit. Transfers are tried: first the spender's, and,
\* after the state is stored, the pool's. A failed one is ignored; one fails
\* when its sender holds too little, or for the token's own reasons.
Settle(unsent, stuck) ==
    /\ tx # NoTx
    /\ HealthOk
    /\ Stored(tx.res, tx.stored)
    /\ positions' = tx.holders
    /\ LET received == [a \in Assets |-> IF a \in unsent THEN 0 ELSE tx.sent[a]]
           paid == [a \in Assets |->
                      IF a \in stuck \/ tx.due[a] > tx.held[a] + received[a]
                      THEN 0 ELSE tx.due[a]]
       IN  /\ balance' = [a \in Assets |-> tx.held[a] + received[a] - paid[a]]
           /\ unpaid' = [a \in Assets |-> unpaid[a] + tx.sent[a] - received[a]]
           /\ undelivered' = [a \in Assets |-> undelivered[a] + tx.due[a] - paid[a]]
    /\ tx' = NoTx
    /\ UNCHANGED live
Commit(unsent, stuck) == Settle(unsent, stuck) /\ UNCHANGED statusVars

\* (Mutants: the backstop's own debt is overwritten; collateral does not matter.)
BadDebtOverwriting(user) ==
    /\ tx = NoTx
    /\ ~HasCollateral(positions[user]) /\ HasLiabilities(positions[user])
    /\ LET debt == positions[user].liabilities
           owing == {a \in Assets : debt[a] > 0}
       IN  /\ positions' = [positions EXCEPT
                 ![user].liabilities = Zero, ![Backstop].liabilities = debt]
           /\ Stored([a \in Assets |-> Load(a)], owing)
    /\ UNCHANGED <<statusVars, live, tx, tokens>>
BadDebtOfAnybody(user) ==
    /\ tx = NoTx
    /\ HasLiabilities(positions[user])
    /\ LET debt == positions[user].liabilities
           owing == {a \in Assets : debt[a] > 0}
       IN  /\ positions' = [positions EXCEPT
                 ![user].liabilities = Zero,
                 ![Backstop].liabilities = [a \in Assets |-> @[a] + debt[a]]]
           /\ Stored([a \in Assets |-> Load(a)], owing)
    /\ UNCHANGED <<statusVars, live, tx, tokens>>
\* transfer_bad_debt_to_backstop
BadDebt(user) ==
    /\ tx = NoTx
    /\ ~HasCollateral(positions[user]) /\ HasLiabilities(positions[user])
    /\ LET debt == positions[user].liabilities
           owing == {a \in Assets : debt[a] > 0}
       IN  /\ positions' = [positions EXCEPT
                 ![user].liabilities = Zero,
                 ![Backstop].liabilities = [a \in Assets |-> @[a] + debt[a]]]
           /\ Stored([a \in Assets |-> Load(a)], owing)
    /\ UNCHANGED <<statusVars, live, tx, tokens>>

\* Time passes: calc_accrual gives no less, for the same utilization, later.
CloseLedger(later) ==
    /\ tx = NoTx
    /\ \A a \in Assets : later[a] >= accrual[a]
    /\ accrual' = later
    /\ UNCHANGED <<statusVars, reserve, positions, live, tx, tokens>>

PassDeploymentSeq ==
    /\ tx = NoTx /\ ~live
    /\ live' = TRUE
    /\ UNCHANGED <<statusVars, reserve, accrual, positions, tx, tokens>>

ChangeStatus == /\ tx = NoTx
                /\ StatusNext
                /\ UNCHANGED <<reserve, accrual, positions, live, tx, tokens>>

Next == \/ \E from \in Users : Begin(from)
        \/ \E a \in Assets, amount \in Amounts :
             \/ Supply(a, amount) \/ Withdraw(a, amount)
             \/ SupplyCollateral(a, amount) \/ WithdrawCollateral(a, amount)
             \/ Borrow(a, amount) \/ Repay(a, amount)
        \/ \E unsent, stuck \in Failures : Commit(unsent, stuck)
        \/ Revert
        \/ \E user \in Users : BadDebt(user)
        \/ \E later \in [Assets -> Accruals] : CloseLedger(later)
        \/ PassDeploymentSeq
        \/ ChangeStatus

Spec == Init /\ [][Next]_vars
-----------------------------------------------------------------------------
PositionsType == [liabilities : [Assets -> Nat], collateral : [Assets -> Nat],
                  supply : [Assets -> Nat]]
TxType == [from : Users, res : [Assets -> Reserves], stored : SUBSET Assets,
           holders : [Holders -> PositionsType], held : [Assets -> Nat],
           sent : [Assets -> Nat], due : [Assets -> Nat],
           check_health : BOOLEAN, count : 0..MaxRequests]

TypeOK == /\ StatusTypeOK
          /\ reserve \in [Assets -> Reserves]
          /\ accrual \in [Assets -> Accruals]
          /\ positions \in [Holders -> PositionsType]
          /\ live \in BOOLEAN
          /\ tx = NoTx \/ tx \in TxType
          /\ {balance, unpaid, undelivered} \subseteq [Assets -> Nat]

\* The b and d tokens of an asset that the holders of positions p have together.
Supplied(p, a) ==
    FoldFunction(+, 0, [h \in Holders |-> p[h].collateral[a] + p[h].supply[a]])
Owing(p, a) == FoldFunction(+, 0, [h \in Holders |-> p[h].liabilities[a]])

\* The supplies of a reserve are the sums of its holders' positions: no request,
\* bad debt transfer or cached reserve loses or invents a b or d token.
SupplyMatchesPositions ==
    \A a \in Assets : /\ reserve[a].b_supply = Supplied(positions, a)
                      /\ reserve[a].d_supply = Owing(positions, a)

\* What the pool holds of an asset, had every transfer been made.
Settled(a) == balance[a] + unpaid[a] - undelivered[a]

\* A reserve can pay its suppliers and its backstop out of its tokens and its
\* loans: every conversion and accrual is rounded in the reserve's favour. Failed
\* transfers are counted as made; nothing else is.
ReserveSolvent ==
    \A a \in Assets : Settled(a) + TotalLiabilities(reserve[a])
                        >= TotalSupply(reserve[a]) + reserve[a].backstop_credit

\* Interest only accrues: no sequence of requests and ledgers lowers a rate, and
\* with it the worth of a supplier's b tokens.
RatesNeverFall ==
    [][\A a \in Assets : /\ reserve'[a].b_rate >= reserve[a].b_rate
                         /\ reserve'[a].d_rate >= reserve[a].d_rate]_vars

\* What a holder's positions in an asset are worth in a loaded reserve.
Worth(p, a, r) == ToAssetFromB(r, p.collateral[a] + p.supply[a])
                    - ToAssetFromD(r, p.liabilities[a])

\* Nobody gains by submitting: whatever its requests, a transaction leaves from's
\* positions worth at most what they were worth plus the tokens it sends.
SubmitGainsNothing ==
    [][tx # NoTx /\ tx' = NoTx =>
         \A a \in Assets :
             Worth(positions'[tx.from], a, Load(a)') - Worth(positions[tx.from], a, Load(a))
               <= Settled(a)' - Settled(a)]_vars

\* A pool that is on-ice lends no more, and one that is frozen takes no deposits:
\* the supplies of its reserves can only shrink.
IcedPoolsShrink ==
    [][\A a \in Assets :
         /\ ~MayBorrow(status) => reserve'[a].d_supply <= reserve[a].d_supply
         /\ ~MaySupply(status) => reserve'[a].b_supply <= reserve[a].b_supply]_vars
=============================================================================
