# Blend contracts: TLA+ models, checks and proofs

This directory specifies the contracts of Blend, a lending protocol on Soroban:
an *emitter* that mints BLND, a *backstop* module that insures pools and
receives the emissions, a *pool factory*, and *pools* in which users supply and
borrow. Modules are translated from the Rust source under `src/`; `PROJECT.json`
maps every definition to the lines it stands for.

- [The system](#the-system)
- [Modules](#modules)
- [Runs](#runs), with their bounds
- [Disagreements between code and documentation](#disagreements)
- [Proofs](#proofs)
- [Abstractions and assumptions](#abstractions-and-assumptions)
- [Not modelled](#not-modelled), and [the plan](#plan)

## The system

A Soroban transaction runs to its end or panics, in which case nothing it did
remains. Contracts call each other synchronously. So there is no interleaving
*inside* a call; what is hard is the order of calls by unrelated parties with a
clock and foreign token balances moving in between, state that one contract
caches of another, and integer arithmetic in which every division rounds.

| Component | State | Operations | Talks to |
|---|---|---|---|
| Emitter (`emitter/src`) | active backstop and its token, queued swap, last distribution per backstop, drop status per backstop | initialize, distribute, queue / cancel / swap backstop, drop | mints BLND; reads balances of the backstop token |
| Backstop funds (`backstop/src/backstop`) | per pool: shares, tokens, queued shares; per pool and user: shares and a withdrawal queue | deposit, queue, dequeue, withdraw, draw, donate, update_tkn_val | called by users and pools; asks the factory for unknown pools |
| Backstop emissions (`backstop/src/emissions`) | reward zone, last distribution, per pool a stream (eps, expiration) with an index, unclaimed pool emissions; per user a record (index, accrued) | gulp_emissions, gulp_pool_emissions, add_reward, claim, and the index update in every operation on shares | reads the emitter's clock; approves BLND to pools; buys LP tokens from Comet |
| Pool factory (`pool-factory/src`) | deployed pools | initialize, deploy | asked by the backstop |
| Pool status (`pool/src/pool/status.rs`) | status 0..6 | update_status, set_status | reads the backstop's `pool_data` |
| Pool configuration (`config.rs`) | list of reserves, their configurations, queued entries | initialize, update_pool, queue / cancel / set reserve | – |
| Interest (`interest.rs`) | rate modifier per reserve | calc_accrual within every load of a reserve | – |
| Lending core (`submit.rs`, `actions.rs`, `user.rs`, `reserve.rs`, `health_factor.rs`, `bad_debt.rs`) | reserves (supplies, rates, backstop credit), positions | submit with requests, bad_debt | transfers of tokens |
| Auctions (`pool/src/auctions`) | one auction per kind and user | create, fill, delete | backstop's draw and donate |
| Pool emissions (`pool/src/emissions`) | a stream per reserve token, records per user | set, gulp, claim | backstop's gulp_pool_emissions and BLND allowance |

What makes each component correct, and where it could go wrong:

- **Emitter.** One token per second goes to whichever backstop is active in that
  second, exactly once, through any sequence of swaps; a swap happens only to the
  announced, strictly larger backstop after the whole lock; drops are capped per
  backstop. Hard: a swap must settle the old backstop before starting the new
  one, and a backstop can be swapped out and in again with old records, its own
  and the emitter's.
- **Backstop funds.** Shares equal those of the users, tokens are held, no rounding
  takes value from other depositors, the withdrawal queue stays in order under
  partial dequeues. Hard: draws change the worth of a share; the factory is asked
  only when a pool has no shares.
- **Backstop emissions.** All promised BLND is covered by what was minted: over
  overlapping streams, several pools, unused allowances, and rounding. Hard: streams
  are replaced while they run, and divisors (unqueued shares) reach zero.
- **Pool status and configuration.** Borrowing is opened only on a healthy backstop,
  a reserve changes only after a week's notice, and the indexes under which
  positions are stored never change their meaning.
- **Auctions.** A fill moves positions and creates none, a quote is never sold twice
  however it is split, a liquidated user loses no more than the standing quote, and
  the filler is healthy afterwards. Hard: the quote is stored while the positions it
  names go on changing; lot and bid are scaled by the block and by the part, with
  several roundings; bad debt may be burnt.
- **Pool emissions.** What all holders can claim is covered by the allowance; nothing is
  earned at once or lost. Hard: a stream is replaced while it runs, and every change of a
  position must update its holder first.
- **Lending.** Books of shares, solvency of each reserve, no gain by any sequence of
  requests, health after taking risk. Hard: requests work on a cache, health is
  judged once at the end, withdrawals and repayments are capped, and this
  repository *tries* transfers and ignores their failure.

`PROJECT.json` lists these hazards with the line where each bites and the
property that watches it.

## Modules

| Module | Models | Notes |
|---|---|---|
| `EmissionSchedule` | what the emitter promises | abstract: earn, pay, hand over |
| `Emitter` | `emitter/src` | every entry point; implements `EmissionSchedule` |
| `BackstopSwaps` | the emitter composed with the backstops it is swapped between: their `initialize` and the part of `gulp_emissions` that reads the emitter | extends `Emitter` |
| `FixedPoint` | external crate `soroban_fixed_point_math` | floor and ceiling of products and quotients |
| `BackstopBalances` | records and arithmetic of `pool.rs`, `user.rs`, `distributor.rs` | no state: operators on pool balances, queues and indexes |
| `Backstop` | the backstop's entry points, and the factory's registry | extends `BackstopBalances` |
| `PoolConstants` | the scale the pool modules share | |
| `ReserveConfig` | a reserve's stored configuration, its index included, and its validation | used by `InterestRate`, `PoolAdmin` |
| `InterestRate` | `interest.rs` over one reserve | |
| `PoolStatus` | `status.rs` | composed into `PoolAdmin` and `Lending` |
| `PoolAdmin` | `config.rs` with the list, the configurations and the queued entries of `storage.rs` | a queued entry carries an index of its own, which `set_reserve` discards |
| `PoolReserve` | `reserve.rs`: conversions and accrual | operators only |
| `Lending` | `submit.rs`, `actions.rs`, `bad_debt.rs`, `user.rs`, `health_factor.rs` | extends `PoolReserve` and `PoolStatus` |
| `Auctions` | `auctions/*.rs` and the requests of `actions.rs` that fill or delete | extends `Lending` |
| `PoolEmissions` | `pool/src/emissions` | over the balances that `Lending` changes |
| `MC*` | small instances for TLC | constraints, sets of inputs and symmetries |
| `*Proofs` | – | theorems, checked by TLAPS; see [Proofs](#proofs) |

Variables carry the names of the storage keys or of the fields of the code's
structs, actions those of its functions. Each entry point is one action, with
what it calls; a panic is a guard that is false. Variables that only record what
happened (for instance `minted`, `active_time` in `Emitter`, `returned` in
`BackstopSwaps`, `early` in `Backstop`, `tuned`, `queued` in `PoolAdmin`, `unpaid`,
`undelivered` in `Lending`, `lost` in `Auctions`, `lapsed` in `PoolEmissions`) are
named as history where they are declared, and no guard reads them.

`submit` is the exception to one action per entry point. A submit is a sequence
of requests against a cached copy, so `Lending` has one action for its start
(`Begin`), one per kind of request, and one for the end (`Commit`: health check,
transfers, stores). In between `tx` holds the copy and nothing else can move, as
in a real transaction. `Revert` drops the copy, the panic that any request or
check may be. `Auctions` adds the requests that fill and delete auctions. These
write auctions and the backstop's balance at once, not at the end, but a later
panic takes that back as well: `draft` holds them until the submit ends.

Comments starting with *Mutant* precede plausible wrong versions of a definition:
for each property of a passing run, `PROJECT.json` names one with which TLC
finds that property violated.

## Runs

Each run is `tlc -config <cfg> <module>`. Scales are small (SCALAR_7 is 10 to 100,
SCALAR_9 is 4 or so): what the properties depend on is that divisions round and
by how much relative to the operands, and small scales make rounding *coarser*
than in production, so that each case occurs within a few steps. Clocks count
days or weeks in units of one; a bound `MaxTime` ends them. Deadlock is checked in
every run.

### Emitter

| Run | Bounds | Shows |
|---|---|---|
| `emitter` | two backstops, balances 0 or 1 (so that they tie, and either leads), a lock of 2, six time units, drops within and above the cap, initialization and gulps of both backstops at any time; 618k states | `EmissionsExact`: minted plus pending is the time active, for each backstop, back and forth; `DropOncePerBackstop`; `SwapAnnouncedAndLarger`; `ImplementsSchedule`: every step is a step of `EmissionSchedule` or a stutter; `QueueResolved`: an unlocked swap is executed or cancelled; `BackedInFirstTerm`: what a backstop assigned was minted to it, unless it was swapped in again |

Six time units hold two complete swaps (out and in again) with distributions
before, between and after. One backstop token suffices: the comparison reads the
balances of the outgoing backstop's token, which change arbitrarily between steps.

*Fairness.* `FairSwapsSpec` assumes that the clock advances and that an enabled swap
or cancellation is eventually called. Both are callable by anybody without
authorization. The content of `QueueResolved` is that one of the two *is* enabled
whatever balances do, a tie in particular.

### Backstop

| Run | Bounds | Shows |
|---|---|---|
| `backstop_funds` | two users, one pool, amounts 1 and 3, draws, donations, a queue of two entries, six shares; 322k states | `SharesMatchUsers`, `TokensBackBalances`, `QueueOrdered`, `FundedPoolsDeployed`, `ShareValueKept` |
| `backstop_emissions` | two users, two pools, one place in the zone that grows to two at time 3, streams of 2 in 3 time units, so that they overlap and expire | `EmissionsFunded`: what users, pools and running streams are owed never exceeds BLND held; `ZoneWellFormed`; `ReceivedTokensCredited` and `HistoryOnlyForEarlyHolders` for claims over lists of distinct pools, paid to oneself |

The bound on shares in `backstop_funds` still yields share values above, at and below
one (donations and draws), partial dequeues that split an entry, and a rest in every
division. `backstop_emissions` is bounded by `Emissions` in `MCBackstop`: pools are
deployed before the clock starts, at most two shares per pool are explored further, and
an unused allowance is followed up only while its pool is alone in having emissions.

### Pool

| Run | Bounds | Shows |
|---|---|---|
| `pool_status` | every interval of the queued percentage with five balances: none, below, exactly at and above the threshold, and saturating | `BorrowingOpensOnHealth`, `UnhealthyStopsBorrowing`, `QueueFreezes` |
| `pool_admin` | two assets; entries that change the curve, the factors only, the decimals, or are invalid, with queued indexes that are often not the asset's; a week of one unit, entries that expire after two; 669k states | `ListMatchesReserves`, `IndexesStable`, `ModifierFitsCurve`, `TimelockHeld` |
| `interest_rate` | seven curves with targets at zero, in the middle, next to and at the kink, two that differ in reactivity only, one to be rejected; eight utilizations up to more than full; four delays, one backdated | `TypeOK` (the modifier stays within its limits), `RateMonotone`, `DebtNeverShrinks` (the backdated delay included) |
| `lending` | one user and the backstop, two assets of different decimals, up to two requests to a submit, rates up to one and a half, transfers that all succeed or all fail; 1.34 million states, about two minutes | `SupplyMatchesPositions`, `ReserveSolvent`, `RatesNeverFall`, `SubmitGainsNothing`, `IcedPoolsShrink` |
| `auctions` | a pool in which one user has borrowed against most of its collateral and another has a little, one asset, interest of a half, parts of a half and the whole, a ramp of two blocks, one or two blocks at a time; 2.32 million states, two and a half minutes | `SolventUpToLosses`, `InterestCovered`, `FillingInPartsGainsNothing`, `LiquidatedByQuote`, `SubmittersHealthy`, `BackstopDebtAccounted` |
| `pool_emissions` | two holders, a b and a d token, streams of a week of two units that are replaced, expire and lose their allowance; three sets of shares, one rejected; 238k states, a minute and a half | `EmissionsFunded`, `ClaimableOnlyGrows`, `NothingEarnedAtOnce`, `RecordsNeverAhead` |

`lending` covers three regions, given as `Explored` in `MCLending`: submits with interest in
an active pool past the deployment ledger; submits without interest under every status
and backstop; and before the deployment ledger, where no health check runs and users
leave bad debt behind, interest on one of the assets. It stops at the first transfer that
fails, which the properties account for. Two assets reach every branch, since the code
treats assets independently but for the sums of the health factor; two requests give every
ordered pair (borrow and supply, withdraw and repay, and so on). What lies outside these
bounds is covered by proofs: all five properties are theorems.

`auctions` starts in a state four requests away from the initial one (`MCStart`), after which
the admin lowered the maximum utilization: without further borrowing, the
liquidation of that user, its bad debt, the backstop's sale of it, and the burning of
what is left follow from interest alone. Filling, repaying, withdrawing and
creating go on at every age of the quote: before, in, between and after its ramps (-1 to 4).
At most two auctions stand while the backstop's tokens are untouched, else one. No loan
is taken here, because of that maximum: that a submit which borrows ends healthy, in whatever
order its requests come, rests on the theorem `SubmittersEndHealthy`. `BackstopDebtAccounted`
asks that forgiven debt is counted in `lost`, not how much of it; the amount is
`SolventUpToLosses`'s business, which fails if too little is counted.

*Fairness.* `FairStatusSpec` assumes that `update_status`, which takes no
authorization, is eventually called while it would change the status. Nothing is
assumed of the admin or the backstop: `UnhealthyStopsBorrowing` and `QueueFreezes`
hold although the admin may keep setting any status it is allowed to.

## Disagreements

Runs in which TLC refutes what the code's comments promise. Each
checks one property; the counterexample is short.

| Run | What the code does | What is said |
|---|---|---|
| `backstop_claim_to` | `claim` mints shares to `to` without updating the emissions of `to`; one without a record is later paid the whole index on them | `distributor.rs:140` users without a record had tokens before emissions began |
| `backstop_claim_twice` | a pool named twice: its second, empty claim replaces the first; LP tokens are received but credited to no pool | `claim.rs:63` the tokens are deposited into the pool's backstop |
| `backstop_returns` | a backstop swapped out and in again sees, at its next gulp, the time of the swap (`backstop_manager.rs:88`) as a distribution, and assigns the seconds since its own last one, in which another backstop was minted to | `manager.rs:66` it assigns emissions from the emitter |

Met while translating, without a run of their own:

- With all shares of a pool queued during a stream, the index update of the backstop divides
  by the unqueued shares, zero (`distributor.rs:97`), in every operation on the pool, a dequeue
  included. `user.rs:77` says a dequeue fails only if too little is queued. Only the
  end of the stream, or a deposit before the queueing, helps.
- Transfers of a submit are tried and their failure ignored (`submit.rs:79`): a withdrawal of
  tokens that are lent out burns b tokens and delivers nothing. `contract.rs:165` of the pool
  says that insufficient funds panic. The supply side is tried as well (`submit.rs:68`): a
  supply or repayment whose transfer fails still mints b tokens or burns d tokens, backed by
  nothing. `unpaid` and `undelivered` count both, and `Settled` as if they had been made.
- A holder's emission record that is ahead of the index of its token accrues nothing
  (`distributor.rs:255` of the pool), for catchups in which it does occur. With a ledger clock
  that does not go back it cannot (`RecordsNeverAhead`), and so the branch is dead in the model.
- Debt that is burnt when the backstop is empty lowers no b rate. `bad_debt_auction.rs:121`
  speaks of a shared loss for token suppliers; it falls on those who withdraw last. `ReserveSolvent`
  is false then, and `SolventUpToLosses` says that it is false by that debt only.
- A bad debt auction that is left over after its debt was burnt names d tokens the backstop no
  longer has: it cannot be filled, and until its entry expires no other can be created.
- The bid of an interest auction is scaled to nothing after 400 blocks; the lookup of its entry
  then panics (`backstop_interest_auction.rs:86`). Neither fillable nor replaceable, the
  auction stands until its entry expires.
- `get_auction` returns the stored quote; `contract.rs:262` of the pool says it is based
  on the current block.
- `bad_debt` panics for the backstop's address (`bad_debt.rs:20`); `contract.rs:179` describes how
  it burns the backstop's own.
- `manager.rs:49` of the backstop refuses a replacement in the reward zone unless a
  distribution happened within 24 hours; `contract.rs:220` says that a
  distribution within 48 hours prevents it.
- From admin-active, one `update_status` goes to on-ice however much is queued
  (`status.rs:44`); `contract.rs:197` of the pool says frozen at 75 %. A second update freezes
  it, which is `QueueFreezes`.
- `set_reserve` reconfigures an existing reserve (`config.rs:114`); `contract.rs:142`
  says it panics then.
- The panic of `require_under_max` is commented out (`pool.rs:98`), its documentation
  kept. The model has no limit on positions.
- `asset_to_base` is the constant 1 (`health_factor.rs:43`), while the balances are
  documented as denominated in the base asset. `Lending` has no prices.

The transfers that are tried, the missing limit and the constant price belong to this
repository's use: it is replayed by an indexer over historical ledgers (`DEPLOYMENT_SEQ`,
"catchups" in the comments of `submit.rs`).

## Proofs

`tlapm <module>` checks each of these for *all* values of the constants that meet the
assumptions named in the modules: any sets of addresses, assets and amounts, any scales,
rates, factors, locks and clocks.

| Module | Theorems |
|---|---|
| `EmitterProofs` | `TypeCorrect`, `EmissionsAreExact`, `DropsAreBounded`, `SwapRule`, `Refinement` (of `EmissionSchedule`), and of `BackstopSwaps`: `FirstTermBacked` |
| `PoolAdminProofs` | `TypeCorrect`, `ListMatches`, `ModifierFits`, `IndexesStay`, `Timelock`: every property of the run `pool_admin`; of `PoolStatus`: `StatusTypeCorrect`, `BorrowingOpensOnHealthProved`, `SuppliesReopenOnHealthProved` |
| `InterestRateProofs` | `TypeCorrect`, `RateMonotoneProved`, `DebtNeverShrinksProved`: every property of its run; `ModifierSteersProved` |
| `LendingProofs` | of `PoolReserve`: `AccrualCovered` and lemmas on each conversion; `TypeCorrect`, `SuppliesMatch`, `ReservesSolvent`, `RatesOnlyRise`, `IcedOnlyShrink`, `SubmitsGainNothing`: every property of its run |
| `BackstopProofs` | `Typed`, `SharesMatched`, `TokensBacked`, `QueueKeptOrdered`, `OnlyDeployedFunded`, `ZoneKept`, `ShareValueNeverFalls`; for claims paid to the claimer, `EmissionsStayFunded` and `HistoryStaysEarly`, for claims that name no pool twice, `ReceivedCredited`: every property of its runs |
| `AuctionsProofs` | `ReservesSolventUpToLosses`, `InterestSaleCovered`, `PartsGainNothing`, `UsersLiquidatedByQuote`, `SubmittersEndHealthy`, `BackstopDebtFollowed`: every property of its run |
| `PoolEmissionsProofs` | `RecordsNeverAheadProved`, `EmissionsFundedProved`, `ClaimableOnlyGrowsProved`, `NothingEarnedAtOnceProved`: every property of its run |
| `ArithmeticProofs` | lemmas: floors and ceilings of products and quotients; sums over finite sets |

**Emitter.** Numbers are natural and `None` is no address (`EmitterAssumption`). None of
the properties is inductive. `IInv` adds to `EmissionsExact`:

- `ActiveStarted`: once there is an active backstop it has a distribution time
  that is not in the future, and before that nothing is queued or minted. Without
  it `Pending` is meaningless, or negative.
- `DropsRecorded`: what was minted in drops was minted by addresses in the drop
  list, each of which was active. Without it a second drop cannot be excluded.
- `QueueTimed`: a queued swap unlocks one lock after it was queued, which turns
  the guard on `unlock_time` into the statement on `queued_at`.

The step that carries the argument is `SwapBackstop`: it distributes to the outgoing
backstop, so that its pending emissions are zero when it stops being active, and starts the
successor's clock at this instant, whatever old time was recorded. The refinement maps
what a backstop earned to `minted[b] + Pending(b)`; a tick of the clock is `Earn`, a
distribution `Pay`, a swap `Handover`, everything else a stutter. `FirstTermBacked` is
inductive as `Backed`: what a backstop has assigned, plus what it could gulp now, was
minted. A distribution adds the same to both sides. A swap back adds to the left one only,
which is the counterexample of `backstop_returns`; a backstop swapped in for the first
time cannot have been initialized, as the emitter has no distribution time for it.

**Configuration.** `ListMatchesReserves` relates the list to the index each configuration stores,
in both directions, so that no asset can be listed twice. Two steps write an index:
a new reserve is given the length of the list before it is appended, and a reconfigured one the index
it had, whatever the queued metadata says (`Reindexed`). `IndexesStable` is the same of steps.
`IInv` adds the types of list, configuration and modifier, and what a queue entry says to the history of its queueing. `TimelockHeld`
needs that an entry queued outside setup unlocks a week after, and that a pool never
returns to setup.

**Interest.** The slopes of the curve are monotone in themselves; the proof of
`RateMonotone` is about the seams, where each formula, rounded in its own way, must be at
most the next one. That needs what `require_valid_reserve_metadata` checks
(`ValidMetadata`): the assumptions on the curve are the code's own. That no loan is free
follows from the least base rate and the least modifier, both positive, as every product is
rounded up (`ScaledPositive`).

**Lending.** Nothing about the stored reserves is inductive while a submit runs, since
`Commit` overwrites them. `IInv` therefore says of the copy in `tx` what it says of the
reserves in storage:

- `Sound`: supplies are the sums of positions, and what is owed is covered by settled tokens.
- `CopySound`: so it is for the copy, counting the transfers still to come.
- `CopyLoaded`: the copy has the rates it was loaded with, supplies that grew only if the
  status lets them, and what is not to be stored is as loaded.
- `CopyFair`: the worth of the submitter's positions grew by no more than it is to send.

Each request keeps these by one lemma about its conversion (rounding goes the reserve's
way: `DepositCovered`, `LoanCovered`, `RepaymentCovered`, ...), and a load by
`AccrualCovered`: the interest added to what borrowers owe is at least what is credited to
suppliers and backstop, through five roundings. `RequestKeeps` states once what any request
does. Sums over holders are folds; the library's induction theorems take an operator, so
`ArithmeticProofs` proves by the least counterexample among subsets of a finite set that a fold
exists, is natural, and follows a change at one holder. That is why users are assumed to be
finitely many.

**Backstop.** A type invariant is already out of reach alone: `deposit` and the index update
subtract without a check, and a claim subtracts indexes. `Books` adds to the types

- `AllOwned`: each pool's shares and queued shares are the sums over its users. Without it
  a dequeue may take the pool below zero, and queued shares may exceed the pool's.
- `AllIndexed`: a pool with a configuration has an index, whose time is not in the future,
  and no user's record is ahead of it. Without it an accrual is negative.
- `Clocks`: the last distribution seen is not after the emitter's, and that not after now.

`Backed` is the sum over pools of `TokensBackBalances`; a claim needs `DepositsBounded` (the parts
of what it bought, each rounded down, are no more than it). `Standing` has the queues, the
zone and the undeployed pools. It needs `Books`: the factory is asked only by pools without
shares, a pool enters the zone because it is above the threshold, and it is the token balance
of an undeployed pool, zero in every state, that keeps it out (`ThresholdFunded`).

The four operations on a user's shares, and a draw and a donation, are one kind of step
(`FundStep`): one pool and one user change, by the same amounts. `Dequeue` is a fold, of
which nothing can be computed by the provers; `DequeueLoop` derives from the fold's definition
a function of the prefixes of the queue, and `TurnTakes` is the loop invariant of
`dequeue_shares_for_withdrawal`: what was taken is gone from the entries seen, those kept are
the last of them and expire as they did.

`ShareValueKept` is an action property: each conversion rounds against its caller, so that a
deposit mints at most the shares its tokens are worth and a withdrawal is paid at most what its
shares are (`DepositFair`, `WithdrawFair`); a claim's deposits are such deposits.

`ReceivedTokensCredited` says in addition how much a claim may lose to rounding: the deposits, each
rounded down, are less than a token per pool short of what was bought (`DepositsClose`). A list that
names a pool twice breaks it, which is `backstop_claim_twice`; `DistinctClaims` is the hypothesis that
excludes it, next to there being a pool at all.

`EmissionsFunded` rounds per user and per pool, so that no step preserves it: an update splits
what a stream owes into parts that are rounded later. `Funded` counts without rounding, in
units of `SCALAR_7`: what a pool may take, the rest of its stream, what its users are due at
the index (`Promised`), and what the emitter distributed and `gulp_emissions` has not assigned.
An update moves value from the stream to the users, at most `eps` times the time passed,
because the shares that are not queued are exactly the sum of the users' (`AllOwned`,
`DueRises`); a claim pays at most what was due; a gulp assigns at most what was distributed
since the last one (`PartsTotal`, which needs that the zone lists no pool twice) and the
renewed stream emits at most that plus the rest of the old one (`GulpedPromise`). A claim whose
`to` is somebody else breaks it: its shares appear without a record at the current index. That is
the hypothesis `ClaimersPaid` of the two theorems; `backstop_claim_to` is what happens to
`HistoryOnlyForEarlyHolders` without it.

**Auctions.** Again the properties are about storage and the steps about a copy, two copies
in fact: `tx` of the reserves and positions, `draft` of the quotes, of what the backstop reports
and of the debt written off. `AInv` says of storage

- `SoundUpToLoss`: the books of `Lending`, but for the debt written off.
- `Credited`: the interest auction's lot is at most the backstop's credit, *after* accrual, as
  whoever fills it loads the reserve first.

and of the two copies, in a submit,

- `DraftSound`, `DraftLoaded`: `CopySound` and `CopyLoaded` of `Lending`, but for the debt written
  off. Fills move tokens at once, requests at the end, which is why both count transfers to come.
- `DebtQuoted`: the backstop is relieved of no more debt than was taken out of its quote, or
  else something was written off.
- `UserQuoted`: every user but the submitter has lost at most what was taken out of its quote.
- `Careful`: the submitter's health is to be checked, unless it took no risk so far.

A fill scales every entry of a quote by two roundings and hands the scaled parts around;
none of the formulas above can be proved with that arithmetic in sight. `LawfulStep` is what
they need of a step, as one formula on what changes: claims on the reserve rise by no more
than the tokens moved and the debt lost, and what leaves a position leaves a quote. Each kind
of fill is lawful (`MovesKeepTotals` for what moves between two positions), as is each request, by
`RequestKeeps` of `LendingProofs`; a lawful step keeps the draft; and a commit stores the draft, so
that storage satisfies what the draft did. `AuctionWriters` names the only steps that write
reserves, positions or quotes. The action properties then speak of commits alone, and
`BackstopDebtFollowed` of `bad_debt` besides.

`PartsGainNothing` is arithmetic on top of that: `Floor` of a share twice is at most once, a
ceiling at least, and the quote's age has not moved.

**Pool emissions.** `EmissionsFunded` rounds per holder and cannot be preserved. As in the
backstop, `Funded` counts without rounding, here in units of a token times `SupplyScalar`: an
index that rises by one owes one unit to each unit of a balance, so what an update adds to what
holders are owed (`Owes`) is the rise times the supply, and the rise was rounded down
from what the stream emitted. `Books` is what makes this work: the supply is the sum of the
balances (otherwise the rise is shared by more than it was divided by), no record is ahead
of its index, a token's data starts with its configuration, and the shares sum to at most one.
A replaced stream emits no more than the rest of the old one and its part of what is gulped
(`LeftToEmit`); parts of the gulped tokens, each rounded down, are at most those. A holder
without a record of its own counts as owed the index from zero, as the code pays it.

`ClaimableOnlyGrows` and `NothingEarnedAtOnce` are about single steps from such states: an update
is idempotent within a ledger, for the holder (`Recorded`) and for the token (`Updated`), so
whatever follows it starts from the same claim. A claim leaves every other holder what it
could claim (`ClaimSparesOthers`), of each token.

**What stays with TLC.** Liveness (`QueueResolved`, `UnhealthyStopsBorrowing`,
`QueueFreezes`) is beyond the prover; every other property of a passing run is a theorem. The runs
that refute a promise need no proof: `backstop_claim_to` and `backstop_claim_twice` show that the
hypotheses `ClaimersPaid` and `DistinctClaims` cannot be dropped.

## Abstractions and assumptions

- **Authorization** is the choice of the actor. Who may call is a conjunct only where it
  is decided by state (a drop by the active backstop, a draw by the pool).
- **Integers.** Amounts are unbounded naturals; the code's `i128` and `u64` arithmetic
  panics on overflow, which disables an action and adds no behaviour. Saturation,
  the exception (`status.rs:135`), is modelled.
- **Time.** A `Tick` is the unit in which the instance's periods are given.
- **Accrual in `Lending`** is a factor that time may raise (`CloseLedger`), at least one.
  That `calc_accrual` yields no less than one, and no less for a longer delay, is
  what `DebtNeverShrinks` says of `InterestRate`. The factor is chosen for a
  reserve independently of its utilization, more than the code can do.
- **Transfers** in `submit` may fail for a set of assets, or because the pool holds too
  little. `Settled` in `ReserveSolvent` and `SubmitGainsNothing` counts failed transfers
  as made: those properties are about the books.
- **Liability factors** are at least one: zero is accepted by the code
  (`config.rs:172`), after which health checks divide by zero.
- **Prices** of assets in `Auctions` are constants, and so is what a backstop token holds of BLND
  and USDC. Health needs no prices (see above); they only size the lots.
- **Expiry.** An auction's entry may expire once its bid is scaled to nothing; in the code that
  takes 31 days without a write, many times the two ramps. A BLND allowance of a pool lapses
  after 120 days (`AllowanceLapses`), and is told apart from one that was used (`lapsed`).
- **Pool emissions** take a change of balances as given: minted, burnt or moved tokens. The
  reserve indexes they are set for are assumed to exist.
- **Comet** returns some number of LP tokens for BLND (`CometOut`), and token values are
  inputs of `update_tkn_val`.
- **The emitter seen by `Backstop`** mints for the interval since its last distribution, to a
  backstop that stays active. `BackstopSwaps` is the composition without that
  simplification, and in turn leaves out who is handed what.
- **External** definitions, marked so in `PROJECT.json`: token balances, the ledger clock,
  the fixed-point crate, and the contracts seen from a neighbour.

## Not modelled

- `initialize` of the factory and the checks of `deploy` on the pool's arguments: they
  are stored once and read by no other operation.
- `set_admin`, which replaces an address that only authorizes.
- Events, the Reflector price lookups that only feed them, and the wording of errors.
- TTL extensions of persistent entries, which keep alive what the models take to be alive.
- The contract clients, the SDK, the mocks and the tests.

Of some 26 000 lines of Rust about 8 000 are code; the rest are unit tests in the same
files, the integration tests and the fuzzer. The map covers more than half of those
8 000. What is left of them is mostly interface declarations, storage accessors,
imports, errors and events.

## Plan

1. An abstract share vault (deposit, redeem, donate, draw), refined by the funds of
   `Backstop` and by the reserves of `Lending`.
2. `Lending` composed with `PoolEmissions`, so that every request itself makes the update
   its change of balance needs; then emitter, backstop and pool with BLND conserved
   from mint to claim.
3. Theorems about the compositions of step 2; those about their parts carry over.
