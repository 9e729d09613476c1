------------------------------ MODULE Backstop ------------------------------
(***************************************************************************)
(* The backstop contract (src/backstop) with the pool factory's registry:  *)
(* first-loss deposits of the pools, their withdrawal queue, draws and     *)
(* donations by pools, and the emissions it takes from the emitter and     *)
(* hands to pools and depositors. Every call is one atomic transaction; a  *)
(* panic reverts it, so a failed check is an action that is not enabled.   *)
(***************************************************************************)
EXTENDS BackstopBalances, FiniteSets

CONSTANTS Pools, Users,  \* addresses of pools and of everybody else
          Amounts,       \* token and share amounts a caller may pass
          DrawAmounts,   \* amounts a pool may draw or pass on as a donation
          ClaimLists,    \* lists of pools a claim may name
          Recipients,    \* pairs <<from, to>> a claim may name
          CometOut,      \* backstop tokens a claim's BLND may buy
          TokenValues,   \* BLND and USDC units per backstop token
          Wallet,        \* backstop tokens each user starts with
          ThresholdPC,   \* product constant of the reward zone threshold
          DistroGap,     \* 1 hour, least time between gulp_emissions
          RecentDistro,  \* 24 hours
          Window,        \* 7 days, length of an emission stream
          ZoneSize, ZoneGrowth, \* reward zone size: 10, one more per 2^23 seconds
          MaxTime,       \* bound on the ledger clock
          None           \* an absent storage entry

ASSUME BackstopAssumption ==
    /\ Amounts \cup DrawAmounts \cup CometOut \subseteq Nat
    /\ Wallet \in Nat
    /\ {Window, ZoneGrowth, ThresholdPC} \subseteq Nat \ {0}
    /\ {DistroGap, RecentDistro, ZoneSize, MaxTime} \subseteq Nat
    /\ TokenValues \subseteq Nat \X Nat
    /\ Recipients \subseteq Users \X Users
    /\ ClaimLists \subseteq Seq(Pools)
    /\ IsFiniteSet(Pools) /\ IsFiniteSet(Users) /\ Pools \cap Users = {}

BackstopEmissionConfig == [expiration : Nat, eps : Nat]
BackstopEmissionsData == [index : Nat, last_time : Nat]
UserEmissionData == [index : Nat, accrued : Nat]
ASSUME NoneAssumption ==
    None \notin BackstopEmissionConfig \cup BackstopEmissionsData \cup UserEmissionData

VARIABLES now,               \* ledger timestamp
          deployed,          \* pools the pool factory has deployed
          pool_balance,      \* PoolBalance of each pool
          user_balance,      \* UserBalance of each pool and user
          emis_config,       \* BackstopEmissionConfig: expiration and eps
          emis_data,         \* BackstopEmissionsData: index and last_time
          user_emis,         \* UserEmissionData: index and accrued
          pool_emissions,    \* BLND a pool has not taken yet
          reward_zone,       \* pools that receive emissions, newest first
          last_distribution, \* LastDistribution
          token_value,       \* LPTknVal
          \* External: what the token and emitter contracts record.
          wallet,            \* backstop tokens of each user
          held,              \* backstop tokens of the backstop contract
          blnd,              \* BLND of the backstop contract
          allowance,         \* BLND each pool may take from it
          emitter_last       \* the emitter's last distribution to this backstop

\* History, read by no action: who held shares of a pool when its emissions began.
VARIABLE early

funds == <<pool_balance, user_balance, wallet, held>>
emissions == <<emis_config, emis_data, user_emis>>
zone == <<pool_emissions, reward_zone, last_distribution, token_value>>
external == <<blnd, allowance, emitter_last>>
vars == <<now, deployed, funds, emissions, zone, external, early>>

\* The state initialize leaves, in the ledger the emitter was initialized in.
Init == /\ now = 0 /\ deployed = {}
        /\ pool_balance = [p \in Pools |-> EmptyPool]
        /\ user_balance = [p \in Pools |-> [u \in Users |-> EmptyUser]]
        /\ emis_config = [p \in Pools |-> None]
        /\ emis_data = [p \in Pools |-> None]
        /\ user_emis = [p \in Pools |-> [u \in Users |-> None]]
        /\ pool_emissions = [p \in Pools |-> 0]
        /\ reward_zone = <<>>
        /\ last_distribution = 0
        /\ token_value = <<0, 0>>
        /\ wallet = [u \in Users |-> Wallet]
        /\ held = 0 /\ blnd = 0
        /\ allowance = [p \in Pools |-> 0]
        /\ emitter_last = 0
        /\ early = [p \in Pools |-> {}]

\* pool_factory.rs: deploy records the new pool.
Deploy(p) ==
    /\ p \notin deployed
    /\ deployed' = deployed \cup {p}
    /\ UNCHANGED <<now, funds, emissions, zone, external, early>>

\* (Mutant: the condition the wrong way round.)
IsFromPoolFactoryOnceFunded(p) == pool_balance[p].shares # 0 => p \in deployed
\* require_is_from_pool_factory: only asked while the pool has no shares.
IsFromPoolFactory(p) == pool_balance[p].shares = 0 => p \in deployed
-----------------------------------------------------------------------------
\* emissions::update_emissions(pool, user), before the balances change. A pool
\* without a configuration has nothing to update.
CanUpdateEmissions(p) ==
    emis_config[p] # None =>
        CanUpdateData(emis_config[p], emis_data[p], pool_balance[p], now)

CurrentData(p) ==
    IF emis_config[p] = None THEN None
    ELSE UpdatedData(emis_config[p], emis_data[p], pool_balance[p], now)

AccruedTo(p, u) ==
    Accrued(IF user_emis[p][u] = None THEN NoRecord ELSE user_emis[p][u],
            user_balance[p][u].shares, CurrentData(p).index)

\* (Mutant: a user without shares gets no record.)
UpdateEmissionsOfHolders(p, u) ==
    /\ CanUpdateEmissions(p)
    /\ emis_data' = [emis_data EXCEPT ![p] = CurrentData(p)]
    /\ user_emis' =
         IF emis_config[p] = None \/ user_balance[p][u].shares = 0 THEN user_emis
         ELSE [user_emis EXCEPT ![p][u] = [index |-> CurrentData(p).index,
                                           accrued |-> AccruedTo(p, u)]]
    /\ UNCHANGED emis_config
UpdateEmissions(p, u) ==
    /\ CanUpdateEmissions(p)
    /\ emis_data' = [emis_data EXCEPT ![p] = CurrentData(p)]
    /\ user_emis' =
         IF emis_config[p] = None THEN user_emis
         ELSE [user_emis EXCEPT ![p][u] = [index |-> CurrentData(p).index,
                                           accrued |-> AccruedTo(p, u)]]
    /\ UNCHANGED emis_config
-----------------------------------------------------------------------------
\* execute_deposit
Deposit(from, p, amount) ==
    /\ IsFromPoolFactory(p)
    /\ amount <= wallet[from]
    /\ UpdateEmissions(p, from)
    /\ CanConvertToShares(pool_balance[p])
    /\ LET to_mint == ConvertToShares(pool_balance[p], amount)
       IN  /\ to_mint # 0
           /\ pool_balance' = [pool_balance EXCEPT ![p] = DepositInto(@, amount, to_mint)]
           /\ user_balance' = [user_balance EXCEPT ![p][from].shares = @ + to_mint]
    /\ wallet' = [wallet EXCEPT ![from] = @ - amount]
    /\ held' = held + amount
    /\ UNCHANGED <<now, deployed, zone, external, early>>

\* execute_queue_withdrawal
QueueWithdrawal(from, p, amount) ==
    /\ UpdateEmissions(p, from)
    /\ CanQueueShares(user_balance[p][from], amount)
    /\ user_balance' = [user_balance EXCEPT ![p][from] = QueueShares(@, amount, now)]
    /\ pool_balance' = [pool_balance EXCEPT ![p].q4w = @ + amount]
    /\ UNCHANGED <<now, deployed, wallet, held, zone, external, early>>

\* execute_dequeue_withdrawal: locked entries may be dequeued too.
DequeueWithdrawal(from, p, amount) ==
    /\ UpdateEmissions(p, from)
    /\ LET result == Dequeue(user_balance[p][from].q4w, amount, now)
       IN  /\ result.left = 0
           /\ user_balance' = [user_balance EXCEPT
                  ![p][from] = [shares |-> @.shares + amount, q4w |-> result.kept]]
    /\ amount <= pool_balance[p].q4w
    /\ pool_balance' = [pool_balance EXCEPT ![p].q4w = @ - amount]
    /\ UNCHANGED <<now, deployed, wallet, held, zone, external, early>>

\* execute_withdraw: leaves the emissions alone.
Withdraw(from, p, amount) ==
    /\ LET result == Dequeue(user_balance[p][from].q4w, amount, now)
           to_return == ConvertToTokens(pool_balance[p], amount)
       IN  /\ ~ result.locked /\ result.left = 0
           /\ to_return # 0
           /\ CanWithdraw(pool_balance[p], to_return, amount)
           /\ user_balance' = [user_balance EXCEPT ![p][from].q4w = result.kept]
           /\ pool_balance' = [pool_balance EXCEPT ![p] = WithdrawFrom(@, to_return, amount)]
           /\ to_return <= held
           /\ held' = held - to_return
           /\ wallet' = [wallet EXCEPT ![from] = @ + to_return]
    /\ UNCHANGED <<now, deployed, emissions, zone, external, early>>

\* execute_draw, authorized by the pool
Draw(p, amount, to) ==
    /\ CanWithdraw(pool_balance[p], amount, 0)
    /\ pool_balance' = [pool_balance EXCEPT ![p] = WithdrawFrom(@, amount, 0)]
    /\ amount <= held
    /\ held' = held - amount
    /\ wallet' = [wallet EXCEPT ![to] = @ + amount]
    /\ UNCHANGED <<now, deployed, user_balance, emissions, zone, external, early>>

\* execute_donate, authorized by the pool
Donate(from, p, amount) ==
    /\ IsFromPoolFactory(p)
    /\ amount <= wallet[from]
    /\ pool_balance' = [pool_balance EXCEPT ![p] = DepositInto(@, amount, 0)]
    /\ wallet' = [wallet EXCEPT ![from] = @ - amount]
    /\ held' = held + amount
    /\ UNCHANGED <<now, deployed, user_balance, emissions, zone, external, early>>
-----------------------------------------------------------------------------
\* execute_claim for a list of pools. A pool named twice is claimed the first
\* time, and the second claim of zero then replaces the amount in the map of
\* claims that the deposits are shared out by.
Occurrences(list, p) == Cardinality({i \in DOMAIN list : list[i] = p})
ClaimOf(list, p, from) ==
    IF p \in ToSet(list) /\ emis_config[p] # None THEN AccruedTo(p, from) ELSE 0
\* (Mutant: the whole deposit goes to the first pool of the list.)
ShareOfFirst(list, p, from) == IF p = list[1] THEN ClaimOf(list, p, from) ELSE 0
ShareOf(list, p, from) ==
    IF Occurrences(list, p) = 1 THEN ClaimOf(list, p, from) ELSE 0

Claim(list, from, to, lp_tokens_out) ==
    LET claimed == SumFunction([p \in ToSet(list) |-> ClaimOf(list, p, from)])
        deposit(p) == MulFloor(lp_tokens_out, ShareOf(list, p, from), claimed)
        to_mint(p) == ConvertToShares(pool_balance[p], deposit(p))
    IN
    /\ list # <<>>
    /\ \A p \in ToSet(list) : CanUpdateEmissions(p)
    /\ emis_data' = [p \in Pools |-> IF p \in ToSet(list) THEN CurrentData(p) ELSE emis_data[p]]
    /\ user_emis' = [p \in Pools |->
          IF p \in ToSet(list) /\ emis_config[p] # None
          THEN [user_emis[p] EXCEPT ![from] = [index |-> CurrentData(p).index, accrued |-> 0]]
          ELSE user_emis[p]]
    /\ IF claimed = 0 THEN UNCHANGED <<funds, blnd>>
       ELSE /\ claimed <= blnd
            /\ blnd' = blnd - claimed
            /\ held' = held + lp_tokens_out
            /\ \A p \in ToSet(list) : CanConvertToShares(pool_balance[p])
            /\ pool_balance' = [p \in Pools |->
                  IF p \in ToSet(list) THEN DepositInto(pool_balance[p], deposit(p), to_mint(p))
                                       ELSE pool_balance[p]]
            /\ user_balance' = [p \in Pools |->
                  IF p \in ToSet(list)
                  THEN [user_balance[p] EXCEPT ![to].shares = @ + to_mint(p)]
                  ELSE user_balance[p]]
            /\ UNCHANGED wallet
    /\ UNCHANGED <<now, deployed, emis_config, zone, allowance, emitter_last, early>>
-----------------------------------------------------------------------------
\* require_pool_above_threshold on load_pool_backstop_data
AboveThreshold(p) ==
    LET blnd_units == MulFloor(pool_balance[p].tokens, token_value[1], Scalar7) \div Scalar7
        usdc_units == MulFloor(pool_balance[p].tokens, token_value[2], Scalar7) \div Scalar7
    IN  blnd_units * blnd_units * blnd_units * blnd_units * usdc_units >= ThresholdPC

MaxZoneLen == ZoneSize + now \div ZoneGrowth

\* (Mutant: the zone is not searched for the new pool.)
MayReplaceAnything(to_add) == AboveThreshold(to_add)
MayEnterZone(to_add) == to_add \notin ToSet(reward_zone) /\ AboveThreshold(to_add)

\* add_to_reward_zone
AddReward(to_add, to_remove) ==
    /\ MayEnterZone(to_add)
    /\ \/ /\ Len(reward_zone) < MaxZoneLen
          /\ reward_zone' = <<to_add>> \o reward_zone
       \/ /\ Len(reward_zone) >= MaxZoneLen
          /\ \E i \in DOMAIN reward_zone :
                /\ reward_zone[i] = to_remove
                /\ reward_zone' = [reward_zone EXCEPT ![i] = to_add]
          /\ last_distribution >= now - RecentDistro
          /\ pool_balance[to_add].tokens > pool_balance[to_remove].tokens
    /\ UNCHANGED <<now, deployed, funds, emissions, pool_emissions, last_distribution,
                   token_value, external, early>>

ZoneTokens ==
    SumFunction([i \in DOMAIN reward_zone |-> NonQueuedTokens(pool_balance[reward_zone[i]])])

\* What set_backstop_emission_config finds not emitted by the running stream.
\* (Mutant: it counts from the last update, which the index has paid for.)
LeftFromLastUpdate(p) ==
    IF emis_config[p] # None /\ emis_config[p].expiration > now
    THEN emis_config[p].eps * (emis_config[p].expiration - emis_data[p].last_time) ELSE 0
LeftToEmit(p) ==
    IF emis_config[p] # None /\ emis_config[p].expiration > now
    THEN emis_config[p].eps * (emis_config[p].expiration - now) ELSE 0

\* gulp_emissions: 70% to the depositors of the zone's pools, 30% to the pools.
GulpEmissions ==
    LET new == (emitter_last - last_distribution) * Scalar7
        share(p) == DivFloor(NonQueuedTokens(pool_balance[p]), ZoneTokens, Scalar7)
        part(p, tenths) == MulFloor(share(p), MulFloor(new, (tenths * Scalar7) \div 10, Scalar7),
                                    Scalar7)
    IN
    /\ reward_zone # <<>>
    /\ emitter_last > last_distribution + DistroGap
    /\ ZoneTokens # 0
    /\ \A p \in ToSet(reward_zone) : CanUpdateEmissions(p)
    /\ last_distribution' = emitter_last
    /\ pool_emissions' = [p \in Pools |->
          IF p \in ToSet(reward_zone) THEN pool_emissions[p] + part(p, 3) ELSE pool_emissions[p]]
    /\ emis_data' = [p \in Pools |->
          IF p \in ToSet(reward_zone)
          THEN [index |-> IF emis_config[p] = None THEN 0 ELSE CurrentData(p).index,
                last_time |-> now]
          ELSE emis_data[p]]
    /\ emis_config' = [p \in Pools |->
          IF p \in ToSet(reward_zone)
          THEN [expiration |-> now + Window,
                eps |-> (part(p, 7) + LeftToEmit(p)) \div Window]
          ELSE emis_config[p]]
    /\ early' = [p \in Pools |->
          IF p \in ToSet(reward_zone) /\ emis_config[p] = None
          THEN {u \in Users : user_balance[p][u].shares > 0} ELSE early[p]]
    /\ UNCHANGED <<now, deployed, funds, user_emis, reward_zone, token_value, external>>

\* gulp_pool_emissions, authorized by the pool
GulpPoolEmissions(p) ==
    /\ pool_emissions[p] # 0
    /\ allowance' = [allowance EXCEPT ![p] = @ + pool_emissions[p]]
    /\ pool_emissions' = [pool_emissions EXCEPT ![p] = 0]
    /\ UNCHANGED <<now, deployed, funds, emissions, reward_zone, last_distribution,
                   token_value, blnd, emitter_last, early>>

\* execute_update_comet_token_value: the pair's reserves fix the value.
UpdateTknVal(value) ==
    /\ token_value' = value
    /\ UNCHANGED <<now, deployed, funds, emissions, pool_emissions, reward_zone,
                   last_distribution, external, early>>
-----------------------------------------------------------------------------
\* External: the emitter mints a token per second to the active backstop.
EmitterDistributes ==
    /\ emitter_last # now
    /\ blnd' = blnd + (now - emitter_last) * Scalar7
    /\ emitter_last' = now
    /\ UNCHANGED <<now, deployed, funds, emissions, zone, allowance, early>>

\* External: a pool's users take BLND from the backstop with its allowance.
PoolPaysOut(p, amount) ==
    /\ amount \in 1..allowance[p] /\ amount <= blnd
    /\ allowance' = [allowance EXCEPT ![p] = @ - amount]
    /\ blnd' = blnd - amount
    /\ UNCHANGED <<now, deployed, funds, emissions, zone, emitter_last, early>>

Tick == /\ now < MaxTime
        /\ now' = now + 1
        /\ UNCHANGED <<deployed, funds, emissions, zone, external, early>>

Next ==
    \/ \E p \in Pools : Deploy(p) \/ GulpPoolEmissions(p)
    \/ \E u \in Users, p \in Pools, amount \in Amounts :
          \/ Deposit(u, p, amount) \/ QueueWithdrawal(u, p, amount)
          \/ DequeueWithdrawal(u, p, amount) \/ Withdraw(u, p, amount)
    \/ \E u \in Users, p \in Pools, amount \in DrawAmounts :
          Draw(p, amount, u) \/ Donate(u, p, amount)
    \/ \E list \in ClaimLists, pair \in Recipients, out \in CometOut :
          Claim(list, pair[1], pair[2], out)
    \/ \E p, q \in Pools : AddReward(p, q)
    \/ \E value \in TokenValues : UpdateTknVal(value)
    \/ \E p \in Pools : PoolPaysOut(p, allowance[p])
    \/ GulpEmissions \/ EmitterDistributes \/ Tick

Spec == Init /\ [][Next]_vars
-----------------------------------------------------------------------------
PoolBalance == [shares : Nat, tokens : Nat, q4w : Nat]
TypeOK ==
    /\ now \in Nat /\ deployed \subseteq Pools
    /\ pool_balance \in [Pools -> PoolBalance]
    /\ user_balance \in [Pools -> [Users -> UserBalance]]
    /\ emis_config \in [Pools -> BackstopEmissionConfig \cup {None}]
    /\ emis_data \in [Pools -> BackstopEmissionsData \cup {None}]
    /\ user_emis \in [Pools -> [Users -> UserEmissionData \cup {None}]]
    /\ pool_emissions \in [Pools -> Nat] /\ allowance \in [Pools -> Nat]
    /\ reward_zone \in Seq(Pools)
    /\ last_distribution \in Nat /\ emitter_last \in Nat /\ token_value \in Nat \X Nat
    /\ wallet \in [Users -> Nat] /\ held \in Nat /\ blnd \in Nat

QueuedBy(p, u) ==
    SumFunction([i \in DOMAIN user_balance[p][u].q4w |-> user_balance[p][u].q4w[i].amount])

\* The shares a pool's backstop counts as issued and as queued are those its
\* users own and have queued, after any sequence of deposits, partial dequeues,
\* withdrawals, draws, donations and claims.
SharesMatchUsers == \A p \in Pools :
    /\ pool_balance[p].q4w = SumFunction([u \in Users |-> QueuedBy(p, u)])
    /\ pool_balance[p].shares = pool_balance[p].q4w
                                + SumFunction([u \in Users |-> user_balance[p][u].shares])

\* The contract holds the backstop tokens of all its pools: no pool's draw or
\* withdrawal is paid with the tokens of another, and none fails for lack of them.
TokensBackBalances == SumFunction([p \in Pools |-> pool_balance[p].tokens]) <= held

\* Backstop tokens that come in are credited to the pools they came in for, but
\* for less than a token per pool of a claim, and those that go out are debited.
ReceivedTokensCredited ==
    [][LET credited == SumFunction([p \in Pools |-> pool_balance'[p].tokens - pool_balance[p].tokens])
       IN  credited <= held' - held /\ held' - held < credited + Cardinality(Pools)]_vars

\* What a share is worth only falls when the pool draws on its backstop: a
\* deposit, withdrawal, donation or claim never takes value from the others.
ShareValueKept ==
    [][\A p \in Pools :
         LET old == pool_balance[p]  new == pool_balance'[p]
         IN  old.shares > 0 /\ new.shares > 0 =>
               \/ new.tokens * old.shares >= old.tokens * new.shares
               \/ new.shares = old.shares /\ \E u \in Users : wallet'[u] = wallet[u] + old.tokens - new.tokens]_vars

\* A user's queue is ordered by expiration and lasts at most one lock from now,
\* so the front that withdraw looks at is always the first entry to expire.
QueueOrdered == \A p \in Pools, u \in Users :
    LET q == user_balance[p][u].q4w
    IN  /\ Len(q) <= MaxQ4WSize
        /\ \A i \in DOMAIN q : q[i].exp <= now + Q4WLockTime
        /\ \A i, j \in DOMAIN q : i < j => q[i].exp <= q[j].exp

\* Only a pool the factory deployed ever holds shares or tokens or receives
\* emissions, though the factory is asked only while a pool has no shares and
\* not at all by add_reward.
FundedPoolsDeployed == \A p \in Pools :
    \/ p \in deployed
    \/ pool_balance[p] = EmptyPool /\ p \notin ToSet(reward_zone) /\ emis_config[p] = None

\* The reward zone never lists a pool twice and never outgrows its size.
ZoneWellFormed == IsInjective(reward_zone) /\ Len(reward_zone) <= MaxZoneLen

\* What the backstop still owes in BLND: to a user at the current index, to a
\* pool, and to the depositors over the rest of a pool's stream.
OwedTo(p, u) ==
    IF emis_data[p] = None THEN 0
    ELSE Accrued(IF user_emis[p][u] = None THEN NoRecord ELSE user_emis[p][u],
                 user_balance[p][u].shares, emis_data[p].index)
StreamLeft(p) ==
    IF emis_config[p] = None \/ emis_data[p].last_time >= emis_config[p].expiration THEN 0
    ELSE emis_config[p].eps * (emis_config[p].expiration - emis_data[p].last_time)
OwedBy(p) == pool_emissions[p] + allowance[p] + StreamLeft(p)
                + SumFunction([u \in Users |-> OwedTo(p, u)])

\* The BLND the emitter minted covers everything promised, now and until the
\* running streams expire: a claim or a pool never finds the backstop empty.
EmissionsFunded == SumFunction([p \in Pools |-> OwedBy(p)]) <= blnd

\* A user without an emission record that holds shares held shares when the
\* pool's emissions began: only then is the whole index due to it.
HistoryOnlyForEarlyHolders == \A p \in Pools, u \in Users :
    emis_data[p] # None /\ user_emis[p][u] = None /\ user_balance[p][u].shares > 0
        => u \in early[p]
=============================================================================
