--------------------------- MODULE EmitterProofs ---------------------------
(***************************************************************************)
(* The emitter's invariants, its swap rule and its refinement of the       *)
(* emission schedule, for all sets of addresses, balances and times; and   *)
(* what the backstops it is swapped between assign.                        *)
(***************************************************************************)
EXTENDS BackstopSwaps, TLAPS

\* Before initialize nothing is recorded; afterwards the active backstop has a
\* distribution time that is not in the future.
ActiveStarted ==
    /\ backstop = None => /\ queued_swap = None /\ dropped = {}
                          /\ \A b \in Backstops : minted[b] = 0 /\ active_time[b] = 0
    /\ backstop # None => /\ backstop_token \in Tokens
                          /\ last_distro[backstop] \in Nat
                          /\ last_distro[backstop] <= now

\* Only an address that was active is in the drop list, and nothing was minted
\* by a drop of an address outside it.
DropsRecorded ==
    \A b \in Backstops : /\ b \in dropped => last_distro[b] # None
                         /\ b \notin dropped => drop_minted[b] = 0
                         /\ drop_minted[b] <= DropCap

\* The queued unlock time is one lock after the queueing.
QueueTimed == queued_swap # None =>
    /\ queued_at \in Nat
    /\ queued_swap.unlock_time = queued_at + SwapLock

IInv == TypeOK /\ ActiveStarted /\ EmissionsExact /\ DropsRecorded /\ QueueTimed
-----------------------------------------------------------------------------
\* The inductive invariant holds initially.
LEMMA InitIInv == Init => IInv
  <1> SUFFICES ASSUME Init PROVE IInv
    OBVIOUS
  <1>1. TypeOK
    <2>1. now \in Nat /\ backstop \in Backstops \cup {None}
      BY DEF Init
    <2>2. /\ backstop_token \in Tokens \cup {None} /\ queued_swap \in Swaps \cup {None}
          /\ queued_at \in Nat \cup {None} /\ dropped \subseteq Backstops
      BY DEF Init
    <2>3. /\ minted \in [Backstops -> Nat] /\ drop_minted \in [Backstops -> Nat]
          /\ active_time \in [Backstops -> Nat]
          /\ last_distro \in [Backstops -> Nat \cup {None}]
      BY DEF Init
    <2>4. balance \in [Tokens -> [Backstops -> Nat]]
      <3>1. Amounts \subseteq Nat
        BY EmitterAssumption
      <3>2. ASSUME NEW t \in Tokens PROVE balance[t] \in [Backstops -> Nat]
        BY <3>1 DEF Init
      <3>3. balance = [t \in Tokens |-> balance[t]]
        BY DEF Init
      <3> QED BY <3>2, <3>3
    <2> QED BY <2>1, <2>2, <2>3, <2>4 DEF TypeOK
  <1>2. ASSUME NEW b \in Backstops PROVE minted[b] + Pending(b) = active_time[b] * Scalar7
    <2>1. b # backstop /\ minted[b] = 0 /\ active_time[b] = 0
      BY EmitterAssumption DEF Init
    <2>2. 0 + 0 = 0 * Scalar7
      BY EmitterAssumption
    <2> QED BY <2>1, <2>2 DEF Pending
  <1>3. ActiveStarted /\ DropsRecorded /\ QueueTimed
    BY EmitterAssumption DEF Init, ActiveStarted, DropsRecorded, QueueTimed
  <1> QED BY <1>1, <1>2, <1>3 DEF IInv, EmissionsExact

\* Every transaction of the emitter, of the token contracts and of the ledger
\* clock preserves the inductive invariant.
LEMMA NextIInv == IInv /\ [Next]_vars => IInv'
  <1> SUFFICES ASSUME IInv, [Next]_vars PROVE IInv'
    OBVIOUS
  <1> USE EmitterAssumption DEF IInv, TypeOK, ActiveStarted, DropsRecorded, QueueTimed, Swaps
  <1>1. ASSUME NEW b \in Backstops, NEW t \in Tokens, Initialize(b, t) PROVE IInv'
    <2>1. EmissionsExact'
      BY <1>1 DEF Initialize, EmissionsExact, Pending
    <2> QED BY <1>1, <2>1 DEF Initialize
  <1>2. ASSUME NEW b \in Backstops, NEW t \in Tokens, QueueSwapBackstop(b, t) PROVE IInv'
    <2>1. EmissionsExact'
      BY <1>2 DEF QueueSwapBackstop, EmissionsExact, Pending
    <2> QED BY <1>2, <2>1 DEF QueueSwapBackstop
  <1>3. CASE Distribute
    <2>1. DistributionAmount \in Nat /\ DistributionAmount = Pending(backstop)
      BY <1>3 DEF Distribute, DistributionAmount, Pending
    <2>2. EmissionsExact'
      BY <1>3, <2>1 DEF Distribute, EmissionsExact, Pending
    <2> QED BY <1>3, <2>1, <2>2 DEF Distribute
  <1>4. CASE CancelSwapBackstop
    <2>1. EmissionsExact'
      BY <1>4 DEF CancelSwapBackstop, EmissionsExact, Pending
    <2> QED BY <1>4, <2>1 DEF CancelSwapBackstop
  <1>5. CASE SwapBackstop
    <2> DEFINE new == queued_swap.new_backstop
    <2>1. /\ DistributionAmount \in Nat /\ DistributionAmount = Pending(backstop)
          /\ backstop \in Backstops /\ new \in Backstops
      BY <1>5 DEF SwapBackstop, DistributionAmount, Pending
    <2>2. new # backstop
      BY <1>5, <2>1 DEF SwapBackstop, IsNewBackstopLarger
    <2>3. EmissionsExact'
      BY <1>5, <2>1, <2>2 DEF SwapBackstop, EmissionsExact, Pending, LastDistroAfterSwap
    <2> QED BY <1>5, <2>1, <2>2, <2>3 DEF SwapBackstop, LastDistroAfterSwap
  <1>6. ASSUME NEW total \in DropTotals, Drop(total) PROVE IInv'
    <2>1. EmissionsExact'
      BY <1>6 DEF Drop, EmissionsExact, Pending
    <2> QED BY <1>6, <2>1 DEF Drop, MayDrop
  <1>7. ASSUME NEW t \in Tokens, NEW b \in Backstops, NEW amount \in Amounts,
               MoveBackstopTokens(t, b, amount) PROVE IInv'
    <2>1. EmissionsExact'
      BY <1>7 DEF MoveBackstopTokens, contract, EmissionsExact, Pending
    <2> QED BY <1>7, <2>1 DEF MoveBackstopTokens, contract
  <1>8. CASE Tick
    <2>1. EmissionsExact'
      BY <1>8 DEF Tick, contract, EmissionsExact, Pending
    <2> QED BY <1>8, <2>1 DEF Tick, contract
  <1>9. CASE UNCHANGED vars
    BY <1>9 DEF vars, contract, EmissionsExact, Pending
  <1> QED BY <1>1, <1>2, <1>3, <1>4, <1>5, <1>6, <1>7, <1>8, <1>9 DEF Next

\* The strengthened invariant holds in every reachable state.
LEMMA InductiveInvariant == Spec => []IInv
  BY InitIInv, NextIInv, PTL DEF Spec

\* Every variable keeps its type.
THEOREM TypeCorrect == Spec => []TypeOK
  BY InductiveInvariant, PTL DEF IInv

\* No second of emission is paid twice or lost, whatever the swaps.
THEOREM EmissionsAreExact == Spec => []EmissionsExact
  BY InductiveInvariant, PTL DEF IInv

\* A backstop's drops never exceed the cap, however often it is swapped in.
THEOREM DropsAreBounded == Spec => []DropOncePerBackstop
  <1>1. IInv => DropOncePerBackstop
    <2> SUFFICES ASSUME IInv, NEW b \in Backstops
                 PROVE  /\ drop_minted[b] <= DropCap
                        /\ drop_minted[b] > 0 => last_distro[b] # None
      BY DEF DropOncePerBackstop
    <2>1. CASE b \in dropped
      BY <2>1 DEF IInv, DropsRecorded
    <2>2. CASE b \notin dropped
      BY <2>2 DEF IInv, DropsRecorded
    <2> QED BY <2>1, <2>2
  <1> QED BY InductiveInvariant, <1>1, PTL
-----------------------------------------------------------------------------
\* A step that replaces the active backstop is swap_backstop.
LEMMA OnlySwapReplaces ==
  ASSUME IInv, [Next]_vars, backstop # None, backstop' # backstop
  PROVE  SwapBackstop
  BY DEF Next, vars, contract, Initialize, QueueSwapBackstop, Distribute,
         CancelSwapBackstop, Drop, MoveBackstopTokens, Tick

\* The active backstop is only replaced by an address announced for the whole
\* lock that still holds more backstop tokens.
THEOREM SwapRule == Spec => SwapAnnouncedAndLarger
  <1> DEFINE A == backstop # None /\ backstop' # backstop =>
                    /\ queued_swap # None /\ backstop' = queued_swap.new_backstop
                    /\ queued_at + SwapLock <= now
                    /\ balance[backstop_token][backstop'] > balance[backstop_token][backstop]
  <1>1. IInv /\ [Next]_vars => [A]_vars
    <2> SUFFICES ASSUME IInv, [Next]_vars, backstop # None, backstop' # backstop PROVE A
      OBVIOUS
    <2>1. SwapBackstop
      BY OnlySwapReplaces
    <2> QED BY <2>1 DEF SwapBackstop, IsNewBackstopLarger, IInv, QueueTimed
  <1> QED BY InductiveInvariant, <1>1, PTL DEF Spec, SwapAnnouncedAndLarger
-----------------------------------------------------------------------------
\* What the refinement mapping shows as earned.
Earned == [b \in Backstops |-> minted[b] + Pending(b)]

\* The initial states map to an initial state of the schedule.
LEMMA InitRefines == Init => Schedule!Init
  BY EmitterAssumption DEF Init, Schedule!Init, Pending

\* Every step maps to a step of the schedule or leaves it unchanged.
LEMMA StepRefines == IInv /\ IInv' /\ [Next]_vars => [Schedule!Next]_(Schedule!vars)
  <1> SUFFICES ASSUME IInv, IInv', [Next]_vars
               PROVE  Schedule!Next \/ UNCHANGED Schedule!vars
    OBVIOUS
  <1> USE EmitterAssumption DEF IInv, TypeOK, ActiveStarted, Swaps, Schedule!vars
  <1>1. ASSUME NEW b \in Backstops, NEW t \in Tokens, Initialize(b, t)
        PROVE  Schedule!Start(b)
    <2>1. Earned' = Earned
      BY <1>1 DEF Initialize, Pending, Earned
    <2> QED BY <1>1, <2>1 DEF Initialize, Schedule!Start, Earned
  <1>2. CASE Distribute
    <2>1. DistributionAmount = Pending(backstop)
      BY <1>2 DEF Distribute, DistributionAmount, Pending
    <2>2. Earned' = Earned
      BY <1>2, <2>1 DEF Distribute, Pending, Earned
    <2>3. minted' = [minted EXCEPT ![backstop] = Earned[backstop]]
      BY <1>2, <2>1 DEF Distribute, Earned
    <2>4. Schedule!Pay
      BY <1>2, <2>2, <2>3 DEF Distribute, Schedule!Pay, Earned
    <2> QED BY <2>4 DEF Schedule!Next
  <1>3. CASE SwapBackstop
    <2> DEFINE new == queued_swap.new_backstop
    <2>1. /\ DistributionAmount = Pending(backstop)
          /\ backstop \in Backstops /\ new \in Backstops
      BY <1>3 DEF SwapBackstop, DistributionAmount, Pending
    <2>2. new # backstop
      BY <1>3, <2>1 DEF SwapBackstop, IsNewBackstopLarger
    <2>3. Earned' = Earned
      BY <1>3, <2>1, <2>2 DEF SwapBackstop, Pending, LastDistroAfterSwap, Earned
    <2>4. minted' = [minted EXCEPT ![backstop] = Earned[backstop]]
      BY <1>3, <2>1 DEF SwapBackstop, Earned
    <2>5. Schedule!Handover(new)
      BY <1>3, <2>1, <2>2, <2>3, <2>4 DEF SwapBackstop, Schedule!Handover, Earned
    <2> QED BY <2>1, <2>5 DEF Schedule!Next
  <1>4. CASE Tick
    <2>1. CASE backstop = None
      <3>1. Earned' = Earned
        BY <1>4, <2>1 DEF Tick, contract, Pending, Earned
      <3> QED BY <1>4, <2>1, <3>1 DEF Tick, contract, Earned
    <2>2. CASE backstop # None
      <3>1. Earned' = [Earned EXCEPT ![backstop] = @ + Scalar7]
        BY <1>4, <2>2 DEF Tick, contract, Pending, Earned
      <3>2. Schedule!Earn
        BY <1>4, <2>2, <3>1 DEF Tick, contract, Schedule!Earn, Earned
      <3> QED BY <3>2 DEF Schedule!Next
    <2> QED BY <2>1, <2>2
  <1>5. ASSUME \/ \E b \in Backstops, t \in Tokens : QueueSwapBackstop(b, t)
               \/ CancelSwapBackstop
               \/ \E total \in DropTotals : Drop(total)
               \/ \E t \in Tokens, b \in Backstops, amount \in Amounts :
                     MoveBackstopTokens(t, b, amount)
               \/ UNCHANGED vars
        PROVE  UNCHANGED Schedule!vars
    <2>1. UNCHANGED <<now, backstop, last_distro, minted>>
      BY <1>5 DEF QueueSwapBackstop, CancelSwapBackstop, Drop, MoveBackstopTokens,
                  contract, vars
    <2> QED BY <2>1 DEF Pending
  <1> QED BY <1>1, <1>2, <1>3, <1>4, <1>5 DEF Next, Schedule!Next

\* The emitter implements the emission schedule.
THEOREM Refinement == Spec => ImplementsSchedule
  BY InitRefines, StepRefines, InductiveInvariant, PTL
  DEF Spec, ImplementsSchedule, Schedule!Spec
-----------------------------------------------------------------------------
\* What a backstop in its first term has assigned or can gulp was minted to it.
Backed(b) ==
    /\ last_distribution[b] \in Nat \cup {None} /\ assigned[b] \in Nat
    /\ last_distribution[b] = None => assigned[b] = 0
    /\ last_distribution[b] # None => last_distro[b] # None
    /\ last_distribution[b] # None /\ b \notin returned =>
           /\ last_distribution[b] <= last_distro[b]
           /\ assigned[b] + (last_distro[b] - last_distribution[b]) * Scalar7 <= minted[b]

\* Until the emitter is initialized nothing has a distribution time.
NothingDistributed == backstop = None => \A b \in Backstops : last_distro[b] = None

SwapsIInv ==
    /\ IInv /\ NothingDistributed
    /\ last_distribution \in [Backstops -> Nat \cup {None}]
    /\ assigned \in [Backstops -> Nat]
    /\ \A b \in Backstops : Backed(b)

\* Seconds of two intervals add up to those of the whole.
LEMMA Joined ==
    ASSUME NEW x \in Nat, NEW y \in Nat, NEW z \in Nat
    PROVE  (z - y) * Scalar7 + (y - x) * Scalar7 = (z - x) * Scalar7
  BY EmitterAssumption

\* A call of the emitter keeps what every backstop assigned backed: a distribution
\* mints what it adds to the interval, and a backstop whose interval a swap extends
\* without minting has returned.
LEMMA EmitterBacks ==
    ASSUME SwapsIInv, Next, UNCHANGED backstopVars, NEW b \in Backstops,
           returned' = returned \cup {x \in Backstops : backstop' = x
                                          /\ backstop \notin {x, None} /\ last_distro[x] # None}
    PROVE  Backed(b)'
  <1> USE EmitterAssumption
  <1> DEFINE ld == last_distro[b]
             l == last_distribution[b]
  <1>1. /\ Backed(b) /\ IInv /\ l' = l /\ assigned'[b] = assigned[b]
        /\ returned \subseteq returned'
    BY DEF SwapsIInv, backstopVars
  <1>2. CASE last_distro'[b] = ld /\ minted'[b] = minted[b]
    BY <1>1, <1>2 DEF Backed
  <1>3. CASE backstop = b /\ last_distro'[b] = now /\ minted'[b] = minted[b] + DistributionAmount
    <2>1. ld \in Nat /\ ld <= now /\ now \in Nat /\ DistributionAmount = (now - ld) * Scalar7
      BY <1>1, <1>3 DEF IInv, ActiveStarted, DistributionAmount, TypeOK
    <2>2. CASE l = None
      BY <1>1, <1>3, <2>2, <2>1 DEF Backed
    <2>3. CASE l # None
      <3>1. l \in Nat /\ minted[b] \in Nat /\ assigned[b] \in Nat
        BY <1>1, <2>3 DEF Backed, IInv, TypeOK
      <3>2. (now - ld) * Scalar7 + (ld - l) * Scalar7 = (now - l) * Scalar7
        BY <3>1, <2>1, Joined
      <3>3. /\ (now - ld) * Scalar7 \in Int /\ (ld - l) * Scalar7 \in Int
            /\ (now - l) * Scalar7 \in Int
        BY <3>1, <2>1
      <3>4. b \notin returned' =>
               /\ l <= ld /\ assigned[b] + (ld - l) * Scalar7 <= minted[b]
        BY <1>1, <2>3 DEF Backed
      <3>5. b \notin returned' =>
               /\ l <= now
               /\ assigned[b] + (now - l) * Scalar7 <= minted[b] + (now - ld) * Scalar7
        BY <3>1, <3>2, <3>3, <3>4, <2>1
      <3> QED BY <1>1, <1>3, <2>1, <2>3, <3>1, <3>5 DEF Backed
    <2> QED BY <2>2, <2>3
  <1>4. CASE last_distro'[b] = now /\ minted'[b] = minted[b]
             /\ (ld = None \/ b \in returned')
    <2>1. now \in Nat
      BY <1>1 DEF IInv, TypeOK
    <2> QED BY <1>1, <1>4, <2>1 DEF Backed
  <1>5. CASE \E x \in Backstops, t \in Tokens : Initialize(x, t)
    <2>1. last_distro[b] = None
      BY <1>5 DEF Initialize, SwapsIInv, NothingDistributed
    <2>2. last_distro'[b] \in {last_distro[b], now} /\ minted' = minted
      BY <1>5, <1>1 DEF Initialize, IInv, TypeOK
    <2> QED BY <2>1, <2>2, <1>2, <1>4
  <1>6. CASE Distribute
    BY <1>1, <1>2, <1>3, <1>6 DEF Distribute, IInv, TypeOK
  <1>7. CASE SwapBackstop
    <2> DEFINE new == queued_swap.new_backstop
    <2>1. /\ backstop \in Backstops /\ new \in Backstops /\ new # backstop /\ backstop # None
      BY <1>1, <1>7 DEF SwapBackstop, IsNewBackstopLarger, IInv, TypeOK, ActiveStarted, Swaps
    <2>2. /\ last_distro' = [last_distro EXCEPT ![backstop] = now, ![new] = now]
          /\ minted' = [minted EXCEPT ![backstop] = @ + DistributionAmount]
          /\ backstop' = new
      BY <1>7 DEF SwapBackstop, LastDistroAfterSwap
    <2>3. /\ last_distro \in [Backstops -> Nat \cup {None}] /\ minted \in [Backstops -> Nat]
      BY <1>1 DEF IInv, TypeOK
    <2>4. CASE b = backstop
      BY <1>3, <2>1, <2>2, <2>3, <2>4
    <2>5. CASE b = new
      BY <1>4, <2>1, <2>2, <2>3, <2>5
    <2>6. CASE b # backstop /\ b # new
      BY <1>2, <2>1, <2>2, <2>3, <2>6
    <2> QED BY <2>4, <2>5, <2>6
  <1>8. CASE UNCHANGED <<last_distro, minted>>
    BY <1>2, <1>8
  <1> QED BY <1>5, <1>6, <1>7, <1>8
      DEF Next, QueueSwapBackstop, CancelSwapBackstop, Drop, MoveBackstopTokens, Tick, contract

\* Every step keeps the backstops' assignments backed.
LEMMA SwapsNextIInv == SwapsIInv /\ [SwapsNext]_swapVars => SwapsIInv'
  <1> SUFFICES ASSUME SwapsIInv, [SwapsNext]_swapVars PROVE SwapsIInv'
    OBVIOUS
  <1> USE EmitterAssumption
  <1>0. /\ IInv /\ NothingDistributed /\ \A b \in Backstops : Backed(b)
        /\ last_distribution \in [Backstops -> Nat \cup {None}]
        /\ assigned \in [Backstops -> Nat]
        /\ last_distro \in [Backstops -> Nat \cup {None}] /\ minted \in [Backstops -> Nat]
    BY DEF SwapsIInv, IInv, TypeOK
  <1>1. CASE EmitterStep
    <2>1. IInv'
      BY <1>0, <1>1, NextIInv DEF EmitterStep
    <2>2. NothingDistributed'
      BY <1>0, <1>1 DEF EmitterStep, NothingDistributed, Next, Initialize, Distribute,
         QueueSwapBackstop, CancelSwapBackstop, SwapBackstop, Drop, MoveBackstopTokens,
         Tick, contract, IInv, TypeOK, Swaps
    <2>3. \A b \in Backstops : Backed(b)'
      BY <1>1, EmitterBacks DEF EmitterStep
    <2> QED BY <1>0, <1>1, <2>1, <2>2, <2>3 DEF SwapsIInv, EmitterStep, backstopVars
  <1>2. ASSUME NEW b \in Backstops, InitializeBackstop(b) PROVE SwapsIInv'
    <2>1. IInv' /\ NothingDistributed'
      BY <1>0, <1>2, NextIInv DEF InitializeBackstop, NothingDistributed, vars, contract
    <2>2. /\ last_distribution' = [last_distribution EXCEPT ![b] = last_distro[b]]
          /\ assigned' = assigned /\ returned' = returned
          /\ last_distro' = last_distro /\ minted' = minted
          /\ last_distribution[b] = None /\ last_distro[b] # None
      BY <1>2 DEF InitializeBackstop, vars, contract
    <2>3. ASSUME NEW c \in Backstops PROVE Backed(c)'
      <3>1. CASE c # b
        BY <1>0, <2>2, <3>1 DEF Backed
      <3>2. CASE c = b
        <4>1. /\ last_distribution'[c] = last_distro[c] /\ last_distro[c] \in Nat
              /\ assigned[c] = 0 /\ minted[c] \in Nat
          BY <1>0, <2>2, <3>2 DEF Backed
        <4>2. (last_distro[c] - last_distro[c]) * Scalar7 = 0
          BY <4>1
        <4> QED BY <2>2, <4>1, <4>2 DEF Backed
      <3> QED BY <3>1, <3>2
    <2> QED BY <1>0, <2>1, <2>2, <2>3 DEF SwapsIInv
  <1>3. ASSUME NEW b \in Backstops, GulpEmissions(b) PROVE SwapsIInv'
    <2>1. IInv' /\ NothingDistributed'
      BY <1>0, <1>3, NextIInv DEF GulpEmissions, NothingDistributed, vars, contract
    <2> DEFINE ld == last_distro[b]
               l == last_distribution[b]
    <2>2. /\ last_distribution' = [last_distribution EXCEPT ![b] = ld]
          /\ assigned' = [assigned EXCEPT ![b] = @ + (ld - l) * Scalar7]
          /\ returned' = returned /\ last_distro' = last_distro /\ minted' = minted
          /\ l # None /\ ld > l + DistroGap
      BY <1>3 DEF GulpEmissions, NewEmissions, vars, contract
    <2>3. /\ l \in Nat /\ ld \in Nat /\ ld >= l /\ assigned[b] \in Nat
      BY <1>0, <2>2, BackstopSwapsAssumption DEF Backed
    <2>4. (ld - l) * Scalar7 \in Nat
      <3>1. ld - l \in Nat
        BY <2>3
      <3> QED BY <3>1
    <2>5. ASSUME NEW c \in Backstops PROVE Backed(c)'
      <3>1. CASE c # b
        BY <1>0, <2>2, <3>1 DEF Backed
      <3>2. CASE c = b
        <4>1. /\ last_distribution'[c] = ld /\ last_distro'[c] = ld
              /\ assigned'[c] = assigned[b] + (ld - l) * Scalar7
          BY <1>0, <2>2, <3>2
        <4>2. (ld - ld) * Scalar7 = 0
          BY <2>3
        <4>3. b \notin returned => assigned[b] + (ld - l) * Scalar7 <= minted[b]
          BY <1>0, <2>2 DEF Backed
        <4> QED BY <1>0, <2>2, <2>3, <2>4, <3>2, <4>1, <4>2, <4>3 DEF Backed
      <3> QED BY <3>1, <3>2
    <2> QED BY <1>0, <2>1, <2>2, <2>3, <2>4, <2>5 DEF SwapsIInv
  <1>4. CASE UNCHANGED swapVars
    <2>1. IInv' /\ NothingDistributed'
      BY <1>0, <1>4, NextIInv DEF swapVars, NothingDistributed, vars, contract
    <2> QED BY <1>0, <1>4, <2>1
        DEF SwapsIInv, Backed, swapVars, backstopVars, vars, contract
  <1> QED BY <1>1, <1>2, <1>3, <1>4 DEF SwapsNext

\* A backstop the emitter was not swapped back to assigns no more than it was minted.
THEOREM FirstTermBacked == SwapsSpec => []BackedInFirstTerm
  <1>1. SwapsInit => SwapsIInv
    BY InitIInv, EmitterAssumption DEF SwapsInit, SwapsIInv, NothingDistributed, Backed, Init
  <1>2. SwapsIInv => BackedInFirstTerm
    <2> SUFFICES ASSUME SwapsIInv, NEW b \in Backstops \ returned
                 PROVE  assigned[b] <= minted[b]
      BY DEF BackedInFirstTerm
    <2>1. Backed(b) /\ minted[b] \in Nat /\ last_distro \in [Backstops -> Nat \cup {None}]
      BY DEF SwapsIInv, IInv, TypeOK
    <2>2. CASE last_distribution[b] = None
      BY <2>1, <2>2 DEF Backed
    <2>3. CASE last_distribution[b] # None
      <3> DEFINE n == last_distro[b] - last_distribution[b]
      <3>1. n \in Nat /\ assigned[b] \in Nat /\ assigned[b] + n * Scalar7 <= minted[b]
        BY <2>1, <2>3, EmitterAssumption DEF Backed
      <3>2. n * Scalar7 \in Nat
        BY <3>1, EmitterAssumption
      <3> QED BY <2>1, <3>1, <3>2
    <2> QED BY <2>2, <2>3
  <1> QED BY <1>1, <1>2, SwapsNextIInv, PTL DEF SwapsSpec
=============================================================================
