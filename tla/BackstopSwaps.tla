---------------------------- MODULE BackstopSwaps ----------------------------
(***************************************************************************)
(* The emitter with the backstops it is swapped between. A backstop reads  *)
(* the time of the emitter's last distribution to it when it is            *)
(* initialized and at every gulp_emissions, and promises its pools and     *)
(* depositors a token for each second in between. Everything else of a     *)
(* backstop is in Backstop.                                                *)
(***************************************************************************)
EXTENDS Emitter

CONSTANT DistroGap \* 1 hour, least time between gulp_emissions

ASSUME BackstopSwapsAssumption == DistroGap \in Nat

VARIABLES last_distribution, \* LastDistribution of each backstop, None before initialize
          assigned           \* what its gulps assigned, before their roundings

\* History, read by no action: backstops the emitter swapped in again.
VARIABLE returned

backstopVars == <<last_distribution, assigned>>
swapVars == <<vars, backstopVars, returned>>
-----------------------------------------------------------------------------
SwapsInit == /\ Init
             /\ last_distribution = [b \in Backstops |-> None]
             /\ assigned = [b \in Backstops |-> 0]
             /\ returned = {}

\* initialize of the backstop: get_last_distro panics for one that was never active.
InitializeBackstop(b) ==
    /\ last_distribution[b] = None /\ last_distro[b] # None
    /\ last_distribution' = [last_distribution EXCEPT ![b] = last_distro[b]]
    /\ UNCHANGED <<vars, assigned, returned>>

\* (Mutant: up to this ledger, not to the emitter's distribution.)
NewEmissionsUntilNow(b) == (now - last_distribution[b]) * Scalar7
NewEmissions(b) == (last_distro[b] - last_distribution[b]) * Scalar7

\* gulp_emissions, with a reward zone that is not empty.
GulpEmissions(b) ==
    /\ last_distribution[b] # None
    /\ last_distro[b] > last_distribution[b] + DistroGap
    /\ last_distribution' = [last_distribution EXCEPT ![b] = last_distro[b]]
    /\ assigned' = [assigned EXCEPT ![b] = @ + NewEmissions(b)]
    /\ UNCHANGED <<vars, returned>>

\* Every call of the emitter, of which a swap may bring a backstop back.
EmitterStep ==
    /\ Next
    /\ returned' = returned \cup {b \in Backstops : backstop' = b /\ backstop \notin {b, None}
                                                    /\ last_distro[b] # None}
    /\ UNCHANGED backstopVars

SwapsNext == \/ EmitterStep
             \/ \E b \in Backstops : InitializeBackstop(b) \/ GulpEmissions(b)

SwapsSpec == SwapsInit /\ [][SwapsNext]_swapVars
FairSwapsSpec == SwapsSpec /\ Fairness
-----------------------------------------------------------------------------
\* contract.rs of the backstop, gulp_emissions: "Consume emissions from the Emitter".
\* What a backstop assigned was minted to it.
EmissionsBacked == \A b \in Backstops : assigned[b] <= minted[b]

\* So it is while the backstop was not swapped in again, in whatever order it is
\* initialized, distributed to, swapped out and gulps.
BackedInFirstTerm == \A b \in Backstops \ returned : assigned[b] <= minted[b]
=============================================================================
