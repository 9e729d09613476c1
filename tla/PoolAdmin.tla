------------------------------ MODULE PoolAdmin ------------------------------
(***************************************************************************)
(* The administration of a pool (src/pool/src/pool/config.rs): reserves    *)
(* are queued, wait a week unless the pool is in setup, and are then added *)
(* or reconfigured by anybody's call of set_reserve.                       *)
(***************************************************************************)
EXTENDS PoolStatus, ReserveConfig, Sequences, FiniteSets

CONSTANTS Assets,        \* underlying tokens
          Metadata,      \* metadata the admin may queue
          BstopRates, MaxPositions, \* arguments of initialize and update_pool
          Modifiers,     \* values interest accrual gives a rate modifier
          Neutral,       \* SCALAR_9, the modifier of a new curve
          MaxReserves,   \* 32
          Week,          \* SECONDS_PER_WEEK
          QueueTtl,      \* life of a queued entry in temporary storage
          MaxTime,       \* bound on the ledger clock
          None           \* an absent storage entry

ASSUME PoolAdminAssumption ==
    /\ Metadata \subseteq ReserveConfigs
    /\ BstopRates \subseteq Nat /\ MaxPositions \subseteq Nat
    /\ Neutral \in Modifiers
    /\ {MaxReserves, Week, QueueTtl, MaxTime} \subseteq Nat /\ Week <= QueueTtl

\* QueuedReserveInit, and what the history keeps of it.
QueueEntries == [new_config : Metadata, unlock_time : Nat]
QueueRecords == [at : Nat, in_setup : BOOLEAN]

ASSUME NoneAssumption ==
    /\ None \notin ReserveConfigs /\ None \notin Modifiers
    /\ None \notin QueueEntries /\ None \notin QueueRecords

VARIABLES now,        \* ledger timestamp
          bstop_rate, max_positions, \* PoolConfig
          res_list,   \* assets with a reserve, by index
          res_config, \* ReserveConfig of each asset
          ir_mod,     \* ReserveData.ir_mod of each asset
          queue       \* QueuedReserveInit of each asset

\* History, read by no action: when each entry was queued and whether in setup,
\* and the curve each modifier was accrued on.
VARIABLES queued, tuned

pool_config == <<bstop_rate, max_positions>>
reserves == <<res_list, res_config, ir_mod, tuned>>
vars == <<now, statusVars, pool_config, reserves, queue, queued>>

Setup == status = 6

\* execute_initialize
Init == /\ now = 0 /\ StatusInit
        /\ bstop_rate \in {r \in BstopRates : r < Scalar7}
        /\ max_positions \in {m \in MaxPositions : m >= 2}
        /\ res_list = <<>>
        /\ res_config = [a \in Assets |-> None]
        /\ ir_mod = [a \in Assets |-> None]
        /\ queue = [a \in Assets |-> None]
        /\ queued = [a \in Assets |-> None]
        /\ tuned = [a \in Assets |-> None]
-----------------------------------------------------------------------------
\* execute_update_pool does not ask for two positions, as initialize does.
UpdatePool(rate, positions) ==
    /\ rate < Scalar7
    /\ bstop_rate' = rate
    /\ max_positions' = positions
    /\ UNCHANGED <<now, statusVars, reserves, queue, queued>>

\* (Mutant: the timelock only in setup.)
UnlockTimeInSetup == IF Setup THEN now + Week ELSE now
UnlockTime == IF Setup THEN now ELSE now + Week

QueueSetReserve(a, metadata) ==
    /\ queue[a] = None
    /\ ValidMetadata(metadata)
    /\ queue' = [queue EXCEPT ![a] = [new_config |-> metadata,
                                      unlock_time |-> UnlockTime]]
    /\ queued' = [queued EXCEPT ![a] = [at |-> now, in_setup |-> Setup]]
    /\ UNCHANGED <<now, statusVars, pool_config, reserves>>

Dequeue(a) == /\ queue' = [queue EXCEPT ![a] = None]
              /\ queued' = [queued EXCEPT ![a] = None]

\* cancel_set_reserve removes the entry; none need be there.
CancelSetReserve(a) ==
    /\ Dequeue(a)
    /\ UNCHANGED <<now, statusVars, pool_config, reserves>>

\* External: the ledger drops a temporary entry nobody extended.
QueueExpires(a) ==
    /\ queue[a] # None /\ now >= queued[a].at + QueueTtl
    /\ Dequeue(a)
    /\ UNCHANGED <<now, statusVars, pool_config, reserves>>

\* (Mutant: an asset that has a reserve is added again.)
AddReserveAgain(a, c) ==
    /\ Len(res_list) < MaxReserves
    /\ res_list' = Append(res_list, a)
    /\ ir_mod' = [ir_mod EXCEPT ![a] = Neutral]
    /\ res_config' = [res_config EXCEPT ![a] = [c EXCEPT !.index = Len(res_list)]]
\* initialize_reserve for a new asset: push_res_list gives it the next index,
\* whatever index the metadata carries.
AddReserve(a, c) ==
    /\ res_config[a] = None
    /\ Len(res_list) < MaxReserves
    /\ res_list' = Append(res_list, a)
    /\ ir_mod' = [ir_mod EXCEPT ![a] = Neutral]
    /\ res_config' = [res_config EXCEPT ![a] = [c EXCEPT !.index = Len(res_list)]]

\* (Mutant: the modifier is reset before the reserve is loaded and accrues.)
ReconfiguredModifierBeforeLoad(a, c, loaded) == loaded
\* A changed curve starts neutral; otherwise the modifier is the accrued one.
ReconfiguredModifier(a, c, loaded) ==
    IF CurveOf(res_config[a]) # CurveOf(c) THEN Neutral ELSE loaded

\* (Mutant: the metadata is stored with the index it was queued with.)
ReconfigureAtQueuedIndex(a, c) ==
    /\ res_config[a] # None
    /\ res_config[a].decimals = c.decimals
    /\ \E loaded \in Modifiers :
         ir_mod' = [ir_mod EXCEPT ![a] = ReconfiguredModifier(a, c, loaded)]
    /\ res_config' = [res_config EXCEPT ![a] = c]
    /\ UNCHANGED res_list
\* initialize_reserve for an asset that has a reserve: it is loaded, which
\* accrues its interest on the old curve, and stored; the new configuration
\* keeps the index of the loaded one.
ReconfigureReserve(a, c) ==
    /\ res_config[a] # None
    /\ res_config[a].decimals = c.decimals
    /\ \E loaded \in Modifiers :
         ir_mod' = [ir_mod EXCEPT ![a] = ReconfiguredModifier(a, c, loaded)]
    /\ res_config' = [res_config EXCEPT ![a] = [c EXCEPT !.index = res_config[a].index]]
    /\ UNCHANGED res_list

SetReserve(a) ==
    /\ queue[a] # None
    /\ queue[a].unlock_time <= now
    /\ Dequeue(a)
    /\ LET c == queue[a].new_config IN
         /\ AddReserve(a, c) \/ ReconfigureReserve(a, c)
         /\ tuned' = [tuned EXCEPT ![a] =
                        IF ir_mod'[a] = Neutral \/ res_config[a] = None
                        THEN CurveOf(c) ELSE CurveOf(res_config[a])]
    /\ UNCHANGED <<now, statusVars, pool_config>>

\* Any submit accrues the interest of the reserves it loads.
AccrueInterest(a) ==
    /\ res_config[a] # None
    /\ \E m \in Modifiers : ir_mod' = [ir_mod EXCEPT ![a] = m]
    /\ tuned' = [tuned EXCEPT ![a] = CurveOf(res_config[a])]
    /\ UNCHANGED <<now, statusVars, pool_config, res_list, res_config, queue, queued>>

ChangeStatus == StatusNext /\ UNCHANGED <<now, pool_config, reserves, queue, queued>>

Tick == /\ now < MaxTime
        /\ now' = now + 1
        /\ UNCHANGED <<statusVars, pool_config, reserves, queue, queued>>

Next == \/ \E rate \in BstopRates, m \in MaxPositions : UpdatePool(rate, m)
        \/ \E a \in Assets :
             \/ \E c \in Metadata : QueueSetReserve(a, c)
             \/ CancelSetReserve(a)
             \/ QueueExpires(a)
             \/ SetReserve(a)
             \/ AccrueInterest(a)
        \/ ChangeStatus
        \/ Tick

Spec == Init /\ [][Next]_vars
-----------------------------------------------------------------------------
TypeOK ==
    /\ StatusTypeOK /\ now \in Nat
    /\ bstop_rate \in 0..(Scalar7 - 1) /\ max_positions \in Nat
    /\ res_list \in Seq(Assets)
    /\ res_config \in [Assets -> {c \in ReserveConfigs : ValidMetadata(c)} \cup {None}]
    /\ ir_mod \in [Assets -> Modifiers \cup {None}]
    /\ queue \in [Assets -> QueueEntries \cup {None}]
    /\ queued \in [Assets -> QueueRecords \cup {None}]
    /\ tuned \in [Assets -> Curves \cup {None}]
    /\ \A a \in Assets : queue[a] # None => ValidMetadata(queue[a].new_config)

\* Positions are keyed by the index a reserve stores, and turned back into an
\* asset by the list: the two agree both ways, whatever index the queued
\* metadata carries and whatever is queued, cancelled, expired and set again.
\* (No asset is listed twice: it would have to store both indexes.)
ListMatchesReserves ==
    /\ \A a \in Assets : res_config[a] # None
         => /\ res_config[a].index + 1 \in DOMAIN res_list
            /\ res_list[res_config[a].index + 1] = a
    /\ \A i \in DOMAIN res_list : /\ res_config[res_list[i]] # None
                                  /\ res_config[res_list[i]].index + 1 = i

\* A reserve is given its index once and forever, and with it its decimals:
\* positions held under them keep their meaning over every reconfiguration.
IndexesStable ==
    [][\A a \in Assets : res_config[a] # None
         => /\ res_config'[a] # None
            /\ res_config'[a].index = res_config[a].index
            /\ res_config'[a].decimals = res_config[a].decimals]_vars

\* A rate modifier that is not neutral was accrued on the curve in force: no
\* reconfiguration lets the drift of one curve scale the rates of another.
ModifierFitsCurve ==
    \A a \in Assets : res_config[a] # None
        => ir_mod[a] = Neutral \/ tuned[a] = CurveOf(res_config[a])

\* What users see coming: a reserve changes after its entry has been queued for
\* a week, unless the entry was queued in setup (it may then be set at any
\* later time, the active pool included).
TimelockHeld ==
    [][\A a \in Assets : res_config'[a] # res_config[a]
         => now >= queued[a].at + Week \/ queued[a].in_setup]_vars
=============================================================================
