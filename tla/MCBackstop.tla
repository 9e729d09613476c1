----------------------------- MODULE MCBackstop -----------------------------
(***************************************************************************)
(* Backstop on small instances.                                            *)
(***************************************************************************)
EXTENDS Backstop, TLC

CONSTANTS p1, p2, u1, u2

OneList == {<<p1>>}
DistinctLists == {<<p>> : p \in Pools} \cup {l \in Pools \X Pools : l[1] # l[2]}
AllLists == {<<p1>>, <<p1, p2>>, <<p1, p1>>}
NoList == {}
ToSelf == {<<u, u>> : u \in Users}
ToAnybody == Users \X Users
HighValue == {<<100, 100>>}
\* Bounds: a draw to almost nothing makes the next deposit mint many shares.
SharesUpTo(n) == \A p \in Pools : pool_balance[p].shares <= n
\* The run that is about funds: the emitter does not distribute.
FundsOnly == emitter_last = 0 /\ SharesUpTo(6)
\* The runs that are about emissions: the reward zone is not empty for long.
NoneQueued == \A p \in Pools, u \in Users : user_balance[p][u].q4w = <<>>
Alone(p) == \A q \in Pools \ {p} : pool_balance[q].shares = 0 /\ pool_emissions[q] = 0

\* Pools are deployed, and one enters the zone, before anything is queued or the
\* clock starts.
SetupFirst == IF now = 0 THEN NoneQueued ELSE deployed = Pools /\ reward_zone # <<>>
\* An allowance is followed up while its pool is the only one with emissions.
Emissions == /\ SetupFirst /\ SharesUpTo(2)
             /\ \A p \in Pools : allowance[p] # 0
                  => NoneQueued /\ Alone(p) /\ now < MaxTime
Claims == SetupFirst /\ SharesUpTo(3)
Interchangeable ==
    {[x \in Pools \cup Users |-> IF x \in Pools THEN f[x] ELSE g[x]] :
        f \in Permutations(Pools), g \in Permutations(Users)}
UserSymmetry == Permutations(Users)
=============================================================================
