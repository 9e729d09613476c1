-------------------------- MODULE PoolAdminProofs --------------------------
(***************************************************************************)
(* The administration of a pool for any assets, metadata and delays: the   *)
(* reserves list, the modifiers, the timelock. Before it, the status, for  *)
(* any state of the backstop.                                              *)
(***************************************************************************)
EXTENDS PoolAdmin, TLAPS

\* A percentage of the scale that is not above another is not above it after
\* rounding: the limits for half and three quarters of the queue are ordered.
LEMMA LimitsOrdered == /\ Percent(30) \in Nat /\ Percent(50) \in Nat
                       /\ Percent(60) \in Nat /\ Percent(75) \in Nat
                       /\ Percent(30) <= Percent(50) /\ Percent(60) <= Percent(75)
  BY PoolConstantsAssumption DEF Percent

\* What the backstop asks of a status that is not the admin's is one of its own.
LEMMA UpdatedStatusType ==
    ASSUME NEW s \in Statuses \ {4, 6}, NEW b
    PROVE  UpdatedStatus(s, b) \in {0, 1, 2, 3, 5}
  BY DEF UpdatedStatus, Statuses

\* Updates, the admin and the backstop keep the types.
LEMMA StatusTypeStep == StatusTypeOK /\ [StatusNext]_statusVars => StatusTypeOK'
  <1> SUFFICES ASSUME StatusTypeOK, [StatusNext]_statusVars PROVE StatusTypeOK'
    OBVIOUS
  <1> USE PoolStatusAssumption DEF StatusTypeOK
  <1>1. CASE UpdateStatus
    BY <1>1, UpdatedStatusType DEF UpdateStatus, Statuses
  <1>2. ASSUME NEW s \in StatusArguments, SetStatus(s) PROVE StatusTypeOK'
    BY <1>2 DEF SetStatus, AdminMaySet, Statuses
  <1>3. ASSUME NEW b \in BackstopStates, BackstopChanges(b) PROVE StatusTypeOK'
    BY <1>3 DEF BackstopChanges
  <1>4. CASE UNCHANGED statusVars
    BY <1>4 DEF statusVars
  <1> QED BY <1>1, <1>2, <1>3, <1>4 DEF StatusNext

\* Every status is one of the seven, every backstop report has its type.
THEOREM StatusTypeCorrect == StatusSpec => []StatusTypeOK
  <1>1. StatusInit => StatusTypeOK
    BY PoolStatusAssumption DEF StatusInit, StatusTypeOK, Statuses
  <1> QED BY <1>1, StatusTypeStep, PTL DEF StatusSpec

\* An update opens borrowing only where the backstop is healthy.
LEMMA UpdateOpensBorrowing ==
    ASSUME NEW s \in Statuses \ {4, 6}, NEW b \in BackstopData, ~MayBorrow(s),
           MayBorrow(UpdatedStatus(s, b))
    PROVE  Healthy(b)
  <1>1. s \notin {0, 2}
    BY DEF UpdatedStatus, MayBorrow
  <1>2. MetThreshold(b) /\ ~(b.q4w_pct >= Percent(30))
    BY <1>1 DEF UpdatedStatus, MayBorrow
  <1>3. b.q4w_pct < Percent(50)
    BY <1>2, LimitsOrdered, PoolConstantsAssumption DEF BackstopData
  <1> QED BY <1>2, <1>3 DEF Healthy

\* Whichever way borrowing opens, by the admin or by an update, the backstop is
\* above its threshold with less than half of it queued.
THEOREM BorrowingOpensOnHealthProved == StatusSpec => BorrowingOpensOnHealth
  <1>1. StatusTypeOK /\ [StatusNext]_statusVars
          => [~MayBorrow(status) /\ MayBorrow(status') => Healthy(backstop')]_statusVars
    <2> SUFFICES ASSUME StatusTypeOK, [StatusNext]_statusVars,
                        ~MayBorrow(status), MayBorrow(status')
                 PROVE  Healthy(backstop')
      OBVIOUS
    <2>1. CASE UpdateStatus
      BY <2>1, UpdateOpensBorrowing DEF UpdateStatus, StatusTypeOK
    <2>2. ASSUME NEW s \in StatusArguments, SetStatus(s) PROVE Healthy(backstop')
      BY <2>2 DEF SetStatus, AdminMaySet, MayBorrow, Healthy, StatusArguments
    <2>3. ASSUME NEW b \in BackstopStates, BackstopChanges(b) PROVE FALSE
      BY <2>3 DEF BackstopChanges
    <2>4. CASE UNCHANGED statusVars
      BY <2>4 DEF statusVars
    <2> QED BY <2>1, <2>2, <2>3, <2>4 DEF StatusNext
  <1> QED BY <1>1, StatusTypeCorrect, PTL DEF StatusSpec, BorrowingOpensOnHealth

\* An update reopens supplying only while less than three quarters are queued.
LEMMA UpdateReopensSupplies ==
    ASSUME NEW s \in Statuses \ {4, 6}, NEW b \in BackstopData, ~MaySupply(s),
           MaySupply(UpdatedStatus(s, b))
    PROVE  b.q4w_pct < Percent(75)
  <1>1. s = 5
    BY DEF MaySupply, Statuses
  <1>2. ~(b.q4w_pct >= Percent(60))
    BY <1>1 DEF UpdatedStatus, MaySupply
  <1> QED BY <1>2, LimitsOrdered, PoolConstantsAssumption DEF BackstopData

\* A pool that stopped accepting deposits, in setup or frozen by its admin or
\* its backstop, accepts them again only below three quarters queued.
THEOREM SuppliesReopenOnHealthProved == StatusSpec => SuppliesReopenOnHealth
  <1>1. StatusTypeOK /\ [StatusNext]_statusVars
          => [~MaySupply(status) /\ MaySupply(status')
                => backstop'.q4w_pct < Percent(75)]_statusVars
    <2> SUFFICES ASSUME StatusTypeOK, [StatusNext]_statusVars,
                        ~MaySupply(status), MaySupply(status')
                 PROVE  backstop'.q4w_pct < Percent(75)
      OBVIOUS
    <2>1. CASE UpdateStatus
      BY <2>1, UpdateReopensSupplies DEF UpdateStatus, StatusTypeOK
    <2>2. ASSUME NEW s \in StatusArguments, SetStatus(s)
          PROVE  backstop'.q4w_pct < Percent(75)
      <3>1. Percent(50) <= Percent(75)
        BY PoolConstantsAssumption DEF Percent
      <3>2. backstop.q4w_pct \in Int
        BY PoolConstantsAssumption DEF StatusTypeOK, BackstopData
      <3> QED BY <2>2, <3>1, <3>2, LimitsOrdered
              DEF SetStatus, AdminMaySet, MaySupply
    <2>3. ASSUME NEW b \in BackstopStates, BackstopChanges(b) PROVE FALSE
      BY <2>3 DEF BackstopChanges
    <2>4. CASE UNCHANGED statusVars
      BY <2>4 DEF statusVars
    <2> QED BY <2>1, <2>2, <2>3, <2>4 DEF StatusNext
  <1> QED BY <1>1, StatusTypeCorrect, PTL DEF StatusSpec, SuppliesReopenOnHealth
-----------------------------------------------------------------------------
ConfigTypeOK == res_config \in [Assets -> {c \in ReserveConfigs : ValidMetadata(c)} \cup {None}]
QueueTypeOK ==
    /\ queue \in [Assets -> QueueEntries \cup {None}]
    /\ queued \in [Assets -> QueueRecords \cup {None}]
    /\ \A a \in Assets : queue[a] # None => ValidMetadata(queue[a].new_config)

\* The entry of an asset unlocks a week after it was queued, or was queued in setup.
EntryTimed(a) ==
    queue[a] # None => /\ queued[a] # None
                       /\ \/ queue[a].unlock_time = queued[a].at + Week
                          \/ queued[a].in_setup
QueueTimed == \A a \in Assets : EntryTimed(a)

IInv == TypeOK /\ ListMatchesReserves /\ ModifierFitsCurve /\ QueueTimed
-----------------------------------------------------------------------------
\* An accepted configuration is present: it is not mistaken for an absent one.
LEMMA MetadataPresent == \A c \in ReserveConfigs : c # None
  BY NoneAssumption

\* Metadata stored at another index is a configuration, accepted when it was,
\* with the index it is given and the decimals and the curve it came with.
LEMMA Reindexed ==
    ASSUME NEW c \in Metadata, ValidMetadata(c), NEW n \in Nat
    PROVE  LET stored == [c EXCEPT !.index = n] IN
           /\ stored \in ReserveConfigs /\ ValidMetadata(stored) /\ stored # None
           /\ stored.index = n /\ stored.decimals = c.decimals
           /\ CurveOf(stored) = CurveOf(c) /\ CurveOf(c) \in Curves
  <1> DEFINE stored == [c EXCEPT !.index = n]
  <1>1. c \in ReserveConfigs
    BY PoolAdminAssumption
  <1>2. /\ stored \in ReserveConfigs /\ stored.index = n
        /\ stored.decimals = c.decimals /\ stored.c_factor = c.c_factor
        /\ stored.l_factor = c.l_factor /\ stored.util = c.util
        /\ stored.max_util = c.max_util /\ stored.r_base = c.r_base
        /\ stored.r_one = c.r_one /\ stored.r_two = c.r_two
        /\ stored.r_three = c.r_three /\ stored.reactivity = c.reactivity
    BY <1>1 DEF ReserveConfigs
  <1>3. CurveOf(c) \in Curves
    BY <1>1 DEF ReserveConfigs, CurveOf, Curves
  <1> HIDE DEF stored
  <1>4. ValidMetadata(stored) /\ CurveOf(stored) = CurveOf(c)
    BY <1>2 DEF ValidMetadata, CurveOf
  <1>5. stored # None
    BY <1>2, MetadataPresent
  <1> QED BY <1>2, <1>3, <1>4, <1>5 DEF stored

\* The inductive invariant holds when the pool is initialized.
LEMMA InitIInv == Init => IInv
  <1> SUFFICES ASSUME Init PROVE IInv
    OBVIOUS
  <1>1. StatusTypeOK
    BY PoolStatusAssumption DEF Init, StatusInit, StatusTypeOK, Statuses
  <1>2. /\ now \in Nat /\ bstop_rate \in 0..(Scalar7 - 1) /\ max_positions \in Nat
        /\ res_list \in Seq(Assets)
    BY PoolAdminAssumption, PoolConstantsAssumption DEF Init
  <1>3. /\ res_config = [a \in Assets |-> None] /\ ir_mod = [a \in Assets |-> None]
        /\ queue = [a \in Assets |-> None] /\ queued = [a \in Assets |-> None]
        /\ tuned = [a \in Assets |-> None]
    BY DEF Init
  <1>4. TypeOK
    BY <1>1, <1>2, <1>3 DEF TypeOK
  <1>5. ListMatchesReserves
    BY <1>3 DEF Init, ListMatchesReserves
  <1>6. ModifierFitsCurve /\ QueueTimed
    BY <1>3 DEF ModifierFitsCurve, QueueTimed, EntryTimed
  <1> QED BY <1>4, <1>5, <1>6 DEF IInv

\* Removing an entry keeps the types and the times of the queue.
LEMMA DequeueKeeps ==
    ASSUME QueueTypeOK, QueueTimed, NEW a \in Assets, Dequeue(a)
    PROVE  QueueTypeOK' /\ QueueTimed'
  BY DEF QueueTypeOK, QueueTimed, EntryTimed, Dequeue

\* A new entry is of its type and unlocks a week later unless the pool is in setup.
LEMMA QueueKeeps ==
    ASSUME TypeOK, QueueTimed, NEW a \in Assets, NEW c \in Metadata,
           QueueSetReserve(a, c)
    PROVE  QueueTypeOK' /\ QueueTimed'
  <1> DEFINE entry == [new_config |-> c, unlock_time |-> UnlockTime]
             record == [at |-> now, in_setup |-> Setup]
  <1>1. entry \in QueueEntries /\ record \in QueueRecords
    <2>1. UnlockTime \in Nat /\ now \in Nat
      BY PoolAdminAssumption DEF TypeOK, UnlockTime
    <2>2. Setup \in BOOLEAN
      BY DEF Setup
    <2> QED BY <2>1, <2>2 DEF QueueEntries, QueueRecords
  <1>2. entry # None /\ record # None
    BY <1>1, NoneAssumption
  <1>3. queue' = [queue EXCEPT ![a] = entry] /\ queued' = [queued EXCEPT ![a] = record]
    BY DEF QueueSetReserve
  <1>4. record.in_setup \/ entry.unlock_time = record.at + Week
    BY DEF UnlockTime
  <1>5. ValidMetadata(c)
    BY DEF QueueSetReserve
  <1> HIDE DEF entry, record
  <1>6. QueueTypeOK'
    <2>1. entry.new_config = c
      BY DEF entry
    <2> QED BY <1>1, <1>3, <1>5, <2>1 DEF QueueTypeOK, TypeOK
  <1>7. QueueTimed'
    BY <1>2, <1>3, <1>4 DEF QueueTimed, EntryTimed, TypeOK
  <1> QED BY <1>6, <1>7

ReserveTypeOK ==
    /\ ConfigTypeOK
    /\ res_list \in Seq(Assets)
    /\ ir_mod \in [Assets -> Modifiers \cup {None}]
    /\ tuned \in [Assets -> Curves \cup {None}]
ReservesOK == ReserveTypeOK /\ ListMatchesReserves /\ ModifierFitsCurve

\* Adding a reserve appends its asset, which the list did not name, and stores
\* the place it was appended at.
LEMMA AddKeeps ==
    ASSUME ReservesOK, NEW a \in Assets, NEW c \in Metadata, ValidMetadata(c),
           AddReserve(a, c),
           tuned' = [tuned EXCEPT ![a] = CurveOf(c)]
    PROVE  ReservesOK'
  <1> USE DEF ReservesOK, ReserveTypeOK, ConfigTypeOK
  <1> DEFINE stored == [c EXCEPT !.index = Len(res_list)]
  <1>1. /\ stored \in ReserveConfigs /\ ValidMetadata(stored) /\ stored # None
        /\ stored.index = Len(res_list)
        /\ CurveOf(stored) = CurveOf(c) /\ CurveOf(c) \in Curves
    <2>1. Len(res_list) \in Nat
      OBVIOUS
    <2> QED BY <2>1, Reindexed
  <1>2. res_config' = [res_config EXCEPT ![a] = stored]
    BY DEF AddReserve
  <1> HIDE DEF stored
  <1>3. ReserveTypeOK'
    BY <1>1, <1>2, PoolAdminAssumption DEF AddReserve
  <1>4. ModifierFitsCurve'
    BY <1>2 DEF AddReserve, ModifierFitsCurve
  <1>5. ListMatchesReserves'
    <2>1. /\ DOMAIN res_list' = 1..(Len(res_list) + 1)
          /\ \A i \in DOMAIN res_list : res_list'[i] = res_list[i]
          /\ res_list'[Len(res_list) + 1] = a
          /\ DOMAIN res_list = 1..Len(res_list) /\ Len(res_list) \in Nat
          /\ \A i \in DOMAIN res_list : res_list[i] \in Assets
      BY DEF AddReserve
    <2>2. \A i \in DOMAIN res_list : res_list[i] # a
      BY DEF AddReserve, ListMatchesReserves
    <2>3. \A i \in DOMAIN res_list' : i \in DOMAIN res_list \/ i = Len(res_list) + 1
      BY <2>1
    <2>4. res_config'[a] = stored /\ \A b \in Assets : b # a => res_config'[b] = res_config[b]
      BY <1>2
    <2>5. ASSUME NEW b \in Assets, res_config'[b] # None
          PROVE  /\ res_config'[b].index + 1 \in DOMAIN res_list'
                 /\ res_list'[res_config'[b].index + 1] = b
      <3>1. CASE b = a
        BY <1>1, <2>1, <2>4, <3>1
      <3>2. CASE b # a
        BY <2>1, <2>4, <2>5, <3>2 DEF ListMatchesReserves
      <3> QED BY <3>1, <3>2
    <2>6. ASSUME NEW i \in DOMAIN res_list'
          PROVE  /\ res_config'[res_list'[i]] # None
                 /\ res_config'[res_list'[i]].index + 1 = i
      <3>1. CASE i \in DOMAIN res_list
        <4>1. res_list'[i] = res_list[i] /\ res_config'[res_list[i]] = res_config[res_list[i]]
          BY <2>1, <2>2, <2>4, <3>1
        <4> QED BY <3>1, <4>1 DEF ListMatchesReserves
      <3>2. CASE i = Len(res_list) + 1
        BY <1>1, <2>1, <2>4, <3>2
      <3> QED BY <2>3, <3>1, <3>2
    <2> QED BY <2>5, <2>6 DEF ListMatchesReserves
  <1> QED BY <1>3, <1>4, <1>5

\* Reconfiguring a reserve keeps its index and the list, and with a new curve
\* it starts neutral.
LEMMA ReconfigureKeeps ==
    ASSUME ReservesOK, NEW a \in Assets, NEW c \in Metadata, ValidMetadata(c),
           ReconfigureReserve(a, c),
           tuned' = [tuned EXCEPT ![a] = IF ir_mod'[a] = Neutral THEN CurveOf(c)
                                         ELSE CurveOf(res_config[a])]
    PROVE  ReservesOK'
  <1> USE DEF ReservesOK, ReserveTypeOK, ConfigTypeOK
  <1> DEFINE stored == [c EXCEPT !.index = res_config[a].index]
  <1>1. PICK loaded \in Modifiers :
          ir_mod' = [ir_mod EXCEPT ![a] = ReconfiguredModifier(a, c, loaded)]
    BY DEF ReconfigureReserve
  <1>2. ReconfiguredModifier(a, c, loaded) \in Modifiers
    BY PoolAdminAssumption DEF ReconfiguredModifier
  <1>3. res_config[a] \in ReserveConfigs /\ res_config[a].index \in Nat
        /\ CurveOf(res_config[a]) \in Curves
    BY DEF ReconfigureReserve, ReserveConfigs, CurveOf, Curves
  <1>4. /\ stored \in ReserveConfigs /\ ValidMetadata(stored) /\ stored # None
        /\ stored.index = res_config[a].index
        /\ CurveOf(stored) = CurveOf(c) /\ CurveOf(c) \in Curves
    BY <1>3, Reindexed
  <1>5. res_config' = [res_config EXCEPT ![a] = stored]
    BY DEF ReconfigureReserve
  <1> HIDE DEF stored
  <1>6. ReserveTypeOK'
    BY <1>1, <1>2, <1>3, <1>4, <1>5 DEF ReconfigureReserve
  <1>7. ModifierFitsCurve'
    BY <1>1, <1>4, <1>5 DEF ReconfiguredModifier, ModifierFitsCurve
  <1>8. ListMatchesReserves'
    <2>1. UNCHANGED res_list /\ res_config[a] # None
      BY DEF ReconfigureReserve
    <2>2. \A b \in Assets : /\ res_config'[b] # None <=> res_config[b] # None
                            /\ res_config'[b].index = res_config[b].index
      BY <1>4, <1>5, <2>1
    <2>3. \A i \in DOMAIN res_list : res_list[i] \in Assets
      OBVIOUS
    <2> QED BY <2>1, <2>2, <2>3 DEF ListMatchesReserves
  <1> QED BY <1>6, <1>7, <1>8

\* set_reserve keeps the reserves and the queue.
LEMMA SetReserveKeeps ==
    ASSUME IInv, NEW a \in Assets, SetReserve(a)
    PROVE  ReservesOK' /\ QueueTypeOK' /\ QueueTimed'
  <1> DEFINE c == queue[a].new_config
  <1>1. ReservesOK /\ QueueTypeOK /\ QueueTimed
    BY DEF IInv, TypeOK, ReservesOK, ReserveTypeOK, ConfigTypeOK, QueueTypeOK
  <1>2. c \in Metadata /\ ValidMetadata(c)
    BY <1>1 DEF SetReserve, QueueTypeOK, QueueEntries
  <1>3. QueueTypeOK' /\ QueueTimed'
    BY <1>1, DequeueKeeps DEF SetReserve
  <1>4. /\ AddReserve(a, c) \/ ReconfigureReserve(a, c)
        /\ tuned' = [tuned EXCEPT ![a] =
                       IF ir_mod'[a] = Neutral \/ res_config[a] = None
                       THEN CurveOf(c) ELSE CurveOf(res_config[a])]
    BY DEF SetReserve
  <1> HIDE DEF c
  <1>5. CASE AddReserve(a, c)
    BY <1>1, <1>2, <1>4, <1>5, AddKeeps, <1>3 DEF AddReserve
  <1>6. CASE ReconfigureReserve(a, c)
    BY <1>1, <1>2, <1>4, <1>6, ReconfigureKeeps, <1>3 DEF ReconfigureReserve
  <1> QED BY <1>4, <1>5, <1>6

\* Every call, the status, the accruals and the clock keep the invariant.
LEMMA NextIInv == IInv /\ [Next]_vars => IInv'
  <1> SUFFICES ASSUME IInv, [Next]_vars PROVE IInv'
    OBVIOUS
  <1>1. ReservesOK /\ QueueTypeOK /\ QueueTimed /\ StatusTypeOK /\ now \in Nat
        /\ bstop_rate \in 0..(Scalar7 - 1) /\ max_positions \in Nat
    BY DEF IInv, TypeOK, ReservesOK, ReserveTypeOK, ConfigTypeOK, QueueTypeOK
  <1> DEFINE Kept == /\ ReservesOK' /\ QueueTypeOK' /\ QueueTimed' /\ StatusTypeOK'
                     /\ (now \in Nat)' /\ (bstop_rate \in 0..(Scalar7 - 1))'
                     /\ (max_positions \in Nat)'
  <1>2. SUFFICES Kept
    BY DEF IInv, TypeOK, ReservesOK, ReserveTypeOK, ConfigTypeOK, QueueTypeOK
  <1>3. UNCHANGED reserves => ReservesOK'
    BY <1>1 DEF reserves, ReservesOK, ReserveTypeOK, ConfigTypeOK, ListMatchesReserves,
                ModifierFitsCurve
  <1>4. UNCHANGED <<queue, queued>> => QueueTypeOK' /\ QueueTimed'
    BY <1>1 DEF QueueTypeOK, QueueTimed, EntryTimed
  <1>5. UNCHANGED statusVars => StatusTypeOK'
    BY <1>1 DEF statusVars, StatusTypeOK
  <1>6. UNCHANGED pool_config => (bstop_rate \in 0..(Scalar7 - 1))' /\ (max_positions \in Nat)'
    BY <1>1 DEF pool_config
  <1>7. ASSUME NEW rate \in BstopRates, NEW m \in MaxPositions, UpdatePool(rate, m)
        PROVE  Kept
    <2>1. rate \in 0..(Scalar7 - 1) /\ m \in Nat
      BY <1>7, PoolAdminAssumption, PoolConstantsAssumption DEF UpdatePool
    <2> QED BY <1>1, <1>3, <1>4, <1>5, <1>7, <2>1 DEF UpdatePool
  <1>8. ASSUME NEW a \in Assets, NEW c \in Metadata, QueueSetReserve(a, c)
        PROVE  Kept
    BY <1>1, <1>3, <1>5, <1>6, <1>8, QueueKeeps DEF QueueSetReserve, IInv
  <1>9. ASSUME NEW a \in Assets, CancelSetReserve(a) PROVE Kept
    BY <1>1, <1>3, <1>5, <1>6, <1>9, DequeueKeeps DEF CancelSetReserve
  <1>10. ASSUME NEW a \in Assets, QueueExpires(a) PROVE Kept
    BY <1>1, <1>3, <1>5, <1>6, <1>10, DequeueKeeps DEF QueueExpires
  <1>11. ASSUME NEW a \in Assets, SetReserve(a) PROVE Kept
    BY <1>1, <1>5, <1>6, <1>11, SetReserveKeeps DEF SetReserve
  <1>12. ASSUME NEW a \in Assets, AccrueInterest(a) PROVE Kept
    <2>1. CurveOf(res_config[a]) \in Curves
      BY <1>1, <1>12 DEF AccrueInterest, ReservesOK, ReserveTypeOK, ConfigTypeOK,
                         ReserveConfigs, CurveOf, Curves
    <2>2. ReservesOK'
      BY <1>1, <1>12, <2>1 DEF AccrueInterest, ReservesOK, ReserveTypeOK, ConfigTypeOK,
                               ListMatchesReserves, ModifierFitsCurve
    <2> QED BY <1>1, <1>4, <1>5, <1>6, <1>12, <2>2 DEF AccrueInterest
  <1>13. CASE ChangeStatus
    BY <1>1, <1>3, <1>4, <1>6, <1>13, StatusTypeStep DEF ChangeStatus
  <1>14. CASE Tick
    BY <1>1, <1>3, <1>4, <1>5, <1>6, <1>14 DEF Tick
  <1>15. CASE UNCHANGED vars
    BY <1>1, <1>3, <1>4, <1>5, <1>6, <1>15 DEF vars
  <1> QED BY <1>7, <1>8, <1>9, <1>10, <1>11, <1>12, <1>13, <1>14, <1>15 DEF Next

\* The strengthened invariant holds in every reachable state.
LEMMA InductiveInvariant == Spec => []IInv
  BY InitIInv, NextIInv, PTL DEF Spec
-----------------------------------------------------------------------------
\* Configurations, queue entries and modifiers keep their types, and no rejected
\* configuration is ever stored.
THEOREM TypeCorrect == Spec => []TypeOK
  BY InductiveInvariant, PTL DEF IInv

\* A reserve's asset stands in the list at the index the reserve stores, and
\* nothing else does.
THEOREM ListMatches == Spec => []ListMatchesReserves
  BY InductiveInvariant, PTL DEF IInv

\* A modifier that is not neutral was accrued on the curve in force.
THEOREM ModifierFits == Spec => []ModifierFitsCurve
  BY InductiveInvariant, PTL DEF IInv

\* A reserve, once added, is never removed, and keeps its index and its decimals.
THEOREM IndexesStay == Spec => IndexesStable
  <1> DEFINE Stays ==
        \A a \in Assets : res_config[a] # None
          => /\ res_config'[a] # None
             /\ res_config'[a].index = res_config[a].index
             /\ res_config'[a].decimals = res_config[a].decimals
  <1>1. IInv /\ [Next]_vars => [Stays]_vars
    <2> SUFFICES ASSUME IInv, Next PROVE Stays
      OBVIOUS
    <2>1. UNCHANGED res_config => Stays
      OBVIOUS
    <2>2. ASSUME NEW a \in Assets, SetReserve(a) PROVE Stays
      <3> DEFINE c == queue[a].new_config
      <3>1. c \in Metadata /\ ValidMetadata(c) /\ ConfigTypeOK
        BY <2>2 DEF IInv, TypeOK, SetReserve, QueueEntries, ConfigTypeOK
      <3> HIDE DEF c
      <3>2. CASE AddReserve(a, c)
        BY <3>1, <3>2 DEF AddReserve, ConfigTypeOK
      <3>3. CASE ReconfigureReserve(a, c)
        <4> DEFINE stored == [c EXCEPT !.index = res_config[a].index]
        <4>1. res_config[a].index \in Nat
          BY <3>1, <3>3 DEF ReconfigureReserve, ConfigTypeOK, ReserveConfigs
        <4>2. /\ stored # None /\ stored.index = res_config[a].index
              /\ stored.decimals = c.decimals
          BY <3>1, <4>1, Reindexed
        <4>3. /\ res_config' = [res_config EXCEPT ![a] = stored]
              /\ res_config[a].decimals = c.decimals
          BY <3>3 DEF ReconfigureReserve
        <4> HIDE DEF stored
        <4> QED BY <3>1, <4>2, <4>3 DEF ConfigTypeOK
      <3> QED BY <2>2, <3>2, <3>3 DEF SetReserve, c
    <2>3. ASSUME NEW a \in Assets, ~SetReserve(a),
                 \/ \E c \in Metadata : QueueSetReserve(a, c)
                 \/ CancelSetReserve(a) \/ QueueExpires(a) \/ SetReserve(a)
                 \/ AccrueInterest(a)
          PROVE  Stays
      BY <2>1, <2>3 DEF QueueSetReserve, CancelSetReserve, QueueExpires, AccrueInterest,
                        reserves
    <2>4. ASSUME \/ \E rate \in BstopRates, m \in MaxPositions : UpdatePool(rate, m)
                 \/ ChangeStatus \/ Tick
          PROVE  Stays
      BY <2>1, <2>4 DEF UpdatePool, ChangeStatus, Tick, reserves
    <2> HIDE DEF Stays
    <2> QED BY <2>2, <2>3, <2>4 DEF Next
  <1> QED BY <1>1, InductiveInvariant, PTL DEF Spec, IndexesStable

\* A reserve changes only after its entry has been queued for a week, or if it
\* was queued in setup.
THEOREM Timelock == Spec => TimelockHeld
  <1> DEFINE Held == \A a \in Assets : res_config'[a] # res_config[a]
                       => now >= queued[a].at + Week \/ queued[a].in_setup
  <1>1. IInv /\ [Next]_vars => [Held]_vars
    <2> SUFFICES ASSUME IInv, Next PROVE Held
      OBVIOUS
    <2>1. UNCHANGED res_config => Held
      OBVIOUS
    <2>2. ASSUME NEW a \in Assets, SetReserve(a) PROVE Held
      <3>1. \A b \in Assets : b # a => res_config'[b] = res_config[b]
        BY <2>2 DEF SetReserve, AddReserve, ReconfigureReserve, IInv, TypeOK
      <3>2. /\ queue[a] # None /\ queue[a].unlock_time <= now
            /\ queue[a].unlock_time = queued[a].at + Week \/ queued[a].in_setup
        BY <2>2 DEF SetReserve, IInv, QueueTimed, EntryTimed
      <3>3. now \in Nat /\ queue[a] \in QueueEntries
        BY <3>2 DEF IInv, TypeOK
      <3>4. now >= queued[a].at + Week \/ queued[a].in_setup
        BY <3>2, <3>3 DEF QueueEntries
      <3> QED BY <3>1, <3>4
    <2>3. ASSUME NEW a \in Assets, ~SetReserve(a),
                 \/ \E c \in Metadata : QueueSetReserve(a, c)
                 \/ CancelSetReserve(a) \/ QueueExpires(a) \/ SetReserve(a)
                 \/ AccrueInterest(a)
          PROVE  Held
      BY <2>1, <2>3 DEF QueueSetReserve, CancelSetReserve, QueueExpires, AccrueInterest,
                        reserves
    <2>4. ASSUME \/ \E rate \in BstopRates, m \in MaxPositions : UpdatePool(rate, m)
                 \/ ChangeStatus \/ Tick
          PROVE  Held
      BY <2>1, <2>4 DEF UpdatePool, ChangeStatus, Tick, reserves
    <2> HIDE DEF Held
    <2> QED BY <2>2, <2>3, <2>4 DEF Next
  <1> QED BY <1>1, InductiveInvariant, PTL DEF Spec, TimelockHeld
=============================================================================
