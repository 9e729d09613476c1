-------------------------- MODULE EmissionSchedule --------------------------
(***************************************************************************)
(* What the emitter promises, without saying how: one token per second is  *)
(* earned by whichever backstop is active in that second, a payment hands a *)
(* backstop exactly what it has earned and not yet received, and a change  *)
(* of the active backstop settles the account of the outgoing one in full. *)
(* Emitter.tla implements this specification (EmitterProofs.tla).          *)
(***************************************************************************)
EXTENDS Integers

CONSTANTS Backstops,   \* addresses that can be the active backstop
          Rate,        \* base units of BLND earned per second
          None         \* no backstop yet

VARIABLES active,      \* the backstop that is earning
          earned,      \* base units earned by each backstop so far
          paid         \* base units minted to each backstop so far

vars == <<active, earned, paid>>

Init == /\ active = None
        /\ earned = [b \in Backstops |-> 0]
        /\ paid = [b \in Backstops |-> 0]

Start(b) == /\ active = None
            /\ active' = b
            /\ UNCHANGED <<earned, paid>>

\* One more second passes.
Earn == /\ active # None
        /\ earned' = [earned EXCEPT ![active] = @ + Rate]
        /\ UNCHANGED <<active, paid>>

Pay == /\ active # None
       /\ paid' = [paid EXCEPT ![active] = earned[active]]
       /\ UNCHANGED <<active, earned>>

Handover(b) == /\ active # None
               /\ b # active
               /\ active' = b
               /\ paid' = [paid EXCEPT ![active] = earned[active]]
               /\ UNCHANGED earned

Next == \/ \E b \in Backstops : Start(b) \/ Handover(b)
        \/ Earn \/ Pay

Spec == Init /\ [][Next]_vars
=============================================================================
