---------------------------- MODULE PoolEmissions ----------------------------
(***************************************************************************)
(* The emissions of a pool (src/pool/src/emissions): BLND the backstop     *)
(* assigned to the pool is streamed for a week at a time to the holders of *)
(* reserve tokens, the b and d tokens of its reserves, by an index per     *)
(* token and a record per holder. The balances are Lending's positions,    *)
(* whose every change updates the emissions of its holder first.           *)
(***************************************************************************)
EXTENDS PoolConstants, FiniteSets, Functions

CONSTANTS Holders,
          ReserveTokens, \* reserve token ids
          SupplyScalar,  \* 10^decimals of a reserve
          Amounts,       \* of tokens minted, burnt or moved
          Shares,        \* maps of tokens to shares the admin may set
          Assigned,      \* amounts the backstop may assign to the pool
          Week,          \* 7 * 24 * 60 * 60
          AllowanceLife, \* LEDGER_BUMP_USER, 120 days
          MaxTime,       \* bound on the ledger clock
          None           \* an absent storage entry

\* The records of storage.rs.
ReserveEmissionsConfig == [expiration : Nat, eps : Nat]
ReserveEmissionsData == [index : Nat, last_time : Nat]
UserEmissionData == [index : Nat, accrued : Nat]

ASSUME PoolEmissionsAssumption ==
    /\ IsFiniteSet(Holders) /\ IsFiniteSet(ReserveTokens)
    /\ Amounts \subseteq Nat \ {0} /\ Assigned \subseteq Nat
    /\ SupplyScalar \in Nat \ {0} /\ Week \in Nat \ {0}
    /\ {AllowanceLife, MaxTime} \subseteq Nat
    /\ \A s \in Shares : DOMAIN s \subseteq ReserveTokens /\ s \in [DOMAIN s -> Nat]
ASSUME NoneAssumption ==
    None \notin ReserveEmissionsConfig \cup ReserveEmissionsData \cup UserEmissionData

VARIABLES now,       \* ledger timestamp
          shares,    \* pool_emissions
          config,    \* ReserveEmissionsConfig of each token
          data,      \* ReserveEmissionsData of each token
          user_data, \* UserEmissionData of each token and holder
          balance,   \* of each token and holder
          supply     \* of each token: b_supply or d_supply of its reserve

\* External: what the backstop has assigned, and the allowance the pool may
\* transfer, approved at granted. History: allowances that lapsed.
VARIABLES pending, allowance, granted, lapsed

streams == <<shares, config, data>>
backstop == <<pending, allowance, granted, lapsed>>
tokens == <<balance, supply>>
vars == <<now, streams, user_data, tokens, backstop>>

Absent == [t \in ReserveTokens |-> None]

Init == /\ now = 0
        /\ shares = <<>> /\ config = Absent /\ data = Absent
        /\ user_data = [t \in ReserveTokens |-> [h \in Holders |-> None]]
        /\ balance = [t \in ReserveTokens |-> [h \in Holders |-> 0]]
        /\ supply = [t \in ReserveTokens |-> 0]
        /\ pending = 0 /\ allowance = 0 /\ granted = 0 /\ lapsed = 0
-----------------------------------------------------------------------------
\* update_emission_data_with_config, for a token with a config. While nobody holds
\* the token its clock stands still.
UpdatedData(t) ==
    LET d == data[t]
        until == AtMost(now, config[t].expiration)
    IN  IF until <= d.last_time \/ config[t].eps = 0 \/ supply[t] = 0 THEN d
        ELSE [index |-> d.index + DivFloor((until - d.last_time) * config[t].eps,
                                           supply[t], SupplyScalar),
              last_time |-> until]
Updated(t) == IF config[t] = None THEN data[t] ELSE UpdatedData(t)

\* update_user_emissions: without a record the holder is due the whole index. (A
\* record ahead of the index is reset, for the API.)
Due(t, h) ==
    LET u == user_data[t][h]
        index == UpdatedData(t).index
    IN  IF u = None THEN MulFloor(balance[t][h], index, SupplyScalar)
        ELSE IF u.index > index THEN 0
        ELSE u.accrued + MulFloor(balance[t][h], index - u.index, SupplyScalar)

\* (Mutant: holders without tokens are not given a record.)
RecordedOfHolders(t, h) ==
    IF config[t] = None \/ balance[t][h] = 0 THEN user_data[t][h]
    ELSE [index |-> UpdatedData(t).index, accrued |-> Due(t, h)]
\* update_emissions, before the balance changes. Without a config there is nothing
\* to update.
Recorded(t, h) ==
    IF config[t] = None THEN user_data[t][h]
    ELSE [index |-> UpdatedData(t).index, accrued |-> Due(t, h)]

\* One or two holders of t are updated and their balances change, in one call: a
\* second update in the same ledger leaves the token's data alone.
Change(t, new_balance, new_supply) ==
    /\ data' = [data EXCEPT ![t] = Updated(t)]
    /\ user_data' = [user_data EXCEPT ![t] =
           [h \in Holders |-> IF new_balance[h] # balance[t][h]
                              THEN Recorded(t, h) ELSE user_data[t][h]]]
    /\ balance' = [balance EXCEPT ![t] = new_balance]
    /\ supply' = [supply EXCEPT ![t] = new_supply]
    /\ UNCHANGED <<now, shares, config, backstop>>

\* A supply or a loan; a withdrawal or repayment; a fill or the transfer of bad debt.
Mint(t, h, n) == Change(t, [balance[t] EXCEPT ![h] = @ + n], supply[t] + n)
Burn(t, h, n) == /\ balance[t][h] >= n
                 /\ Change(t, [balance[t] EXCEPT ![h] = @ - n], supply[t] - n)
Move(t, from, to, n) ==
    /\ from # to /\ balance[t][from] >= n
    /\ Change(t, [balance[t] EXCEPT ![from] = @ - n, ![to] = @ + n], supply[t])

\* execute_claim. What is claimed is set to nothing before the transfer from the
\* backstop, whose failure is ignored.
Claim(from, ids, delivered) ==
    LET live == {t \in ids : config[t] # None}
        to_claim == SumFunction([t \in live |-> Due(t, from)])
    IN  /\ data' = [t \in ReserveTokens |-> IF t \in live THEN UpdatedData(t) ELSE data[t]]
        /\ user_data' = [t \in ReserveTokens |->
               IF t \notin live THEN user_data[t]
               ELSE [user_data[t] EXCEPT ![from] =
                       [index |-> UpdatedData(t).index, accrued |-> 0]]]
        /\ allowance' = IF delivered /\ to_claim <= allowance
                        THEN allowance - to_claim ELSE allowance
        /\ UNCHANGED <<now, shares, config, tokens, pending, granted, lapsed>>
-----------------------------------------------------------------------------
\* A list that names a token twice counts both shares, which only refuses more.
SetPoolEmissions(s) ==
    /\ SumFunction(s) <= Scalar7
    /\ shares' = s
    /\ UNCHANGED <<now, config, data, user_data, tokens, backstop>>

\* (Mutant: the rest of a stream is counted from its last update.)
LeftFromLastUpdate(t) ==
    IF config[t] = None \/ config[t].expiration <= now THEN 0
    ELSE config[t].eps * (config[t].expiration - data[t].last_time)
\* What a running stream has not emitted is merged into its replacement.
LeftToEmit(t) ==
    IF config[t] = None \/ config[t].expiration <= now THEN 0
    ELSE config[t].eps * (config[t].expiration - now)

\* (Mutant: the clock is set without the index.)
RestartedIndexUnchanged(t) == IF config[t] = None THEN 0 ELSE data[t].index
\* (Mutant: every stream starts from nothing.)
RestartedIndexZero(t) == 0
\* The index a replaced stream goes on from.
RestartedIndex(t) == IF config[t] = None THEN 0 ELSE UpdatedData(t).index

\* gulp_emissions, with the backstop's gulp_pool_emissions: update_reserve_emission_
\* config for each token with a share.
GulpEmissions ==
    /\ pending # 0 /\ pending >= Scalar7
    /\ LET new(t) == MulFloor(shares[t], pending, Scalar7) + LeftToEmit(t) IN
       /\ config' = [t \in ReserveTokens |->
              IF t \in DOMAIN shares
              THEN [expiration |-> now + Week, eps |-> new(t) \div Week]
              ELSE config[t]]
       /\ data' = [t \in ReserveTokens |->
              IF t \in DOMAIN shares THEN [index |-> RestartedIndex(t), last_time |-> now]
              ELSE data[t]]
    /\ allowance' = allowance + pending /\ granted' = now /\ pending' = 0
    /\ UNCHANGED <<now, shares, user_data, tokens, lapsed>>

\* External.
BackstopAssigns(n) == /\ pending' = pending + n
                      /\ UNCHANGED <<now, streams, user_data, tokens, allowance, granted, lapsed>>
AllowanceLapses == /\ now > granted + AllowanceLife
                   /\ allowance' = 0 /\ lapsed' = lapsed + allowance
                   /\ UNCHANGED <<now, streams, user_data, tokens, pending, granted>>
Tick == /\ now < MaxTime /\ now' = now + 1
        /\ UNCHANGED <<streams, user_data, tokens, backstop>>

Next == \/ \E t \in ReserveTokens, h \in Holders, n \in Amounts :
             \/ Mint(t, h, n) \/ Burn(t, h, n)
             \/ \E to \in Holders : Move(t, h, to, n)
        \/ \E h \in Holders, ids \in (SUBSET ReserveTokens) \ {{}}, delivered \in BOOLEAN :
             Claim(h, ids, delivered)
        \/ \E s \in Shares : SetPoolEmissions(s)
        \/ GulpEmissions
        \/ \E n \in Assigned : BackstopAssigns(n)
        \/ AllowanceLapses
        \/ Tick

Spec == Init /\ [][Next]_vars
-----------------------------------------------------------------------------
\* What h could claim of t in this ledger.
Claimable(t, h) == IF config[t] = None THEN 0 ELSE Due(t, h)
\* What the stream of t has not given to an index yet.
Unstreamed(t) ==
    IF config[t] = None \/ config[t].expiration <= UpdatedData(t).last_time THEN 0
    ELSE config[t].eps * (config[t].expiration - UpdatedData(t).last_time)

\* A holder's record is never ahead of the index of its token, however streams start,
\* run out and are replaced: the repair of such records, which forfeits what is due,
\* is never needed.
RecordsNeverAhead ==
    \A t \in ReserveTokens, h \in Holders :
        user_data[t][h] # None => config[t] # None /\ user_data[t][h].index <= data[t].index

\* The allowance, but for what lapsed of it, covers whatever all holders can claim
\* and all streams will emit, however streams are replaced while they run and
\* tokens change hands: no claim's transfer fails for want of emissions.
EmissionsFunded ==
    allowance + lapsed >=
        SumFunction([t \in ReserveTokens |->
            Unstreamed(t) + SumFunction([h \in Holders |-> Claimable(t, h)])])

\* Nobody's emissions are lost but to a claim of theirs, which empties the record,
\* leaves balances and streams and takes nothing from another holder: mints, burns
\* and fills of others, gulps and new shares keep what a holder could claim before
\* them.
ClaimableOnlyGrows ==
    [][\A t \in ReserveTokens, h \in Holders :
         \/ Claimable(t, h)' >= Claimable(t, h)
         \/ /\ user_data'[t][h] # None /\ user_data'[t][h].accrued = 0
            /\ UNCHANGED <<balance, config>>
            /\ \A s \in ReserveTokens, g \in Holders \ {h} :
                 Claimable(s, g)' >= Claimable(s, g)]_vars

\* Emissions are earned by holding over time: in a ledger no call makes anybody's
\* grow, but for the first holder of a token nobody held, who is given what
\* the stream emitted meanwhile.
NothingEarnedAtOnce ==
    [][now' = now =>
         \A t \in ReserveTokens, h \in Holders :
             Claimable(t, h)' <= Claimable(t, h) \/ supply[t] = 0]_vars
=============================================================================
