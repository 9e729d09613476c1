------------------------------ MODULE PoolStatus ------------------------------
(***************************************************************************)
(* The status of a pool (src/pool/src/pool/status.rs): set by its admin,   *)
(* or by anybody from the state of the pool's backstop. Even numbers are   *)
(* the admin's: 0 active, 2 on-ice, 4 frozen, 6 setup. Odd numbers follow  *)
(* the backstop: 1 active, 3 on-ice, 5 frozen.                             *)
(***************************************************************************)
EXTENDS PoolConstants

CONSTANTS ThresholdPC,   \* product constant of a backstop at its minimum
          MaxI128,       \* where products saturate
          BackstopStates \* what the backstop's pool_data may report

\* PoolBackstopData: tokens and what they hold of BLND and USDC, percentage queued.
BackstopData == [tokens : Nat, blnd : Nat, usdc : Nat, q4w_pct : 0..Scalar7]

ASSUME PoolStatusAssumption ==
    /\ ThresholdPC \in Nat \ {0} /\ MaxI128 \in Nat
    /\ BackstopStates \subseteq BackstopData

VARIABLES status,   \* PoolConfig.status
          backstop  \* what the backstop's pool_data reports of the pool

statusVars == <<status, backstop>>

Statuses == 0..6
StatusArguments == 0..7  \* what set_status may be asked for
Percent(n) == (n * Scalar7) \div 100
Saturating(x, y) == AtMost(x * y, MaxI128)
-----------------------------------------------------------------------------
\* calc_pool_backstop_threshold: blnd^4 * usdc in whole tokens, scaled.
ProductConstant(b) ==
    LET blnd == b.blnd \div Scalar7
        usdc == b.usdc \div Scalar7
        squared == Saturating(blnd, blnd)
    IN  Saturating(Saturating(Saturating(Saturating(squared, blnd), blnd), usdc),
                   Scalar7)
Threshold(b) == ProductConstant(b) \div ThresholdPC
MetThreshold(b) == Threshold(b) >= Scalar7

\* (Mutant: an admin's active pool is not checked against the threshold.)
UpdatedStatusOnQueueOnly(s, b) ==
    CASE s = 2 -> IF b.q4w_pct >= Percent(75) THEN 5 ELSE 2
      [] s = 0 -> IF b.q4w_pct >= Percent(50) THEN 3 ELSE 0
      [] OTHER -> IF b.q4w_pct >= Percent(60) THEN 5
                  ELSE IF b.q4w_pct >= Percent(30) \/ ~MetThreshold(b) THEN 3
                  ELSE 1
\* (Mutant: updates leave the admin's statuses alone.)
UpdatedStatusNeverAdmins(s, b) ==
    IF s \in {0, 2} THEN s
    ELSE IF b.q4w_pct >= Percent(60) THEN 5
    ELSE IF b.q4w_pct >= Percent(30) \/ ~MetThreshold(b) THEN 3 ELSE 1
\* The match of execute_update_pool_status.
UpdatedStatus(s, b) ==
    CASE s = 2 -> IF b.q4w_pct >= Percent(75) THEN 5 ELSE 2
      [] s = 0 -> IF ~MetThreshold(b) \/ b.q4w_pct >= Percent(50) THEN 3 ELSE 0
      [] OTHER -> IF b.q4w_pct >= Percent(60) THEN 5
                  ELSE IF b.q4w_pct >= Percent(30) \/ ~MetThreshold(b) THEN 3
                  ELSE 1

\* (Mutant: the admin reopens a pool whatever its queue.)
AdminMaySetAnyQueue(s, b) ==
    \/ s = 0 /\ MetThreshold(b)
    \/ s \in {2, 3} /\ b.q4w_pct < Percent(75)
    \/ s = 4
\* The checks of execute_set_pool_status.
AdminMaySet(s, b) ==
    \/ s = 0 /\ MetThreshold(b) /\ b.q4w_pct < Percent(50)
    \/ s \in {2, 3} /\ b.q4w_pct < Percent(75)
    \/ s = 4
-----------------------------------------------------------------------------
\* The pool is initialized in setup.
StatusInit == status = 6 /\ backstop \in BackstopStates

\* Permissionless. Setup and the admin's freeze are not the backstop's to change.
UpdateStatus ==
    /\ status \notin {4, 6}
    /\ status' = UpdatedStatus(status, backstop)
    /\ UNCHANGED backstop

SetStatus(s) ==
    /\ AdminMaySet(s, backstop)
    /\ status' = s
    /\ UNCHANGED backstop

\* External: deposits, withdrawals and token values of the backstop.
BackstopChanges(b) == backstop' = b /\ UNCHANGED status

StatusNext == \/ UpdateStatus
              \/ \E s \in StatusArguments : SetStatus(s)
              \/ \E b \in BackstopStates : BackstopChanges(b)

StatusSpec == StatusInit /\ [][StatusNext]_statusVars

\* update_status needs no authorization: whoever wants the pool's status to
\* follow its backstop calls it.
FairStatusSpec == StatusSpec /\ WF_statusVars(UpdateStatus)
-----------------------------------------------------------------------------
StatusTypeOK == status \in Statuses /\ backstop \in BackstopData

\* require_action_allowed, pool.rs.
MayBorrow(s) == s <= 1
MaySupply(s) == s <= 3

Healthy(b) == MetThreshold(b) /\ b.q4w_pct < Percent(50)

\* Whichever way a pool comes to allow borrowing, by its admin or by an update,
\* its backstop is above the threshold with less than half of it queued.
BorrowingOpensOnHealth ==
    [][~MayBorrow(status) /\ MayBorrow(status') => Healthy(backstop')]_statusVars

\* A pool that stopped accepting deposits, frozen by its admin or by its backstop
\* or never activated, accepts them again only below three quarters queued.
SuppliesReopenOnHealth ==
    [][~MaySupply(status) /\ MaySupply(status')
         => backstop'.q4w_pct < Percent(75)]_statusVars

\* A backstop that stays unhealthy stops the pool's borrowing for good.
UnhealthyStopsBorrowing ==
    <>[]~Healthy(backstop) => <>[]~MayBorrow(status)

\* While three quarters of a backstop stay queued its pool is frozen for good, be it
\* by a second update: the first puts an admin's active pool only on-ice.
QueueFreezes ==
    <>[](backstop.q4w_pct >= Percent(75)) => <>[]~MaySupply(status)
=============================================================================
