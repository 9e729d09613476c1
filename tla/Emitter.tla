------------------------------ MODULE Emitter ------------------------------
(***************************************************************************)
(* The emitter contract (src/emitter): it mints one BLND per second to the *)
(* active backstop, lets a backstop mint its initial drop once, and swaps  *)
(* the backstop for one that holds more backstop tokens after a lock.      *)
(* Every call is one atomic transaction; a panic reverts it, so a guard    *)
(* that fails is an action that is not enabled.                            *)
(***************************************************************************)
EXTENDS Integers

CONSTANTS Backstops,    \* addresses a swap may name
          Tokens,       \* backstop token contracts
          Amounts,      \* possible backstop token balances of an address
          DropTotals,   \* totals a drop list may sum to
          Scalar7,      \* SCALAR_7: base units of one BLND
          SwapLock,     \* 31 days
          DropCap,      \* 50 million BLND
          MaxTime,      \* bound on the ledger clock
          None          \* an absent value

ASSUME EmitterAssumption ==
    /\ Amounts \subseteq Nat /\ DropTotals \subseteq Nat
    /\ Scalar7 \in Nat /\ SwapLock \in Nat /\ DropCap \in Nat
    /\ None \notin Backstops \cup Nat
    /\ None \notin [new_backstop : Backstops, new_backstop_token : Tokens,
                    unlock_time : Nat]

VARIABLES now,            \* ledger timestamp
          backstop,       \* BACKSTOP_KEY, None until initialize
          backstop_token, \* BACKSTOP_TOKEN_KEY
          queued_swap,    \* SWAP_KEY
          last_distro,    \* LastDistro(address)
          dropped,        \* Dropped(address): who has called drop
          balance,        \* balances in the backstop token contracts
          minted,         \* BLND minted to each backstop by distributions
          drop_minted     \* BLND minted by the drop calls of each backstop

\* History, read by no action: seconds in which an address was the active
\* backstop, and the time the queued swap was queued.
VARIABLES active_time, queued_at

contract == <<backstop, backstop_token, queued_swap, last_distro, dropped>>
vars == <<now, contract, balance, minted, drop_minted, active_time, queued_at>>

Swaps == [new_backstop : Backstops, new_backstop_token : Tokens, unlock_time : Nat]

Init == /\ now = 0
        /\ backstop = None /\ backstop_token = None
        /\ queued_swap = None
        /\ last_distro = [b \in Backstops |-> None]
        /\ dropped = {}
        /\ balance \in [Tokens -> [Backstops -> Amounts]]
        /\ minted = [b \in Backstops |-> 0]
        /\ drop_minted = [b \in Backstops |-> 0]
        /\ active_time = [b \in Backstops |-> 0]
        /\ queued_at = None

Initialize(b, t) ==
    /\ backstop = None
    /\ backstop' = b /\ backstop_token' = t
    /\ last_distro' = [last_distro EXCEPT ![b] = now]
    /\ UNCHANGED <<now, queued_swap, dropped, balance, minted, drop_minted,
                   active_time, queued_at>>

\* The amount execute_distribute mints to the active backstop.
DistributionAmount == (now - last_distro[backstop]) * Scalar7

Distribute ==
    /\ backstop # None
    /\ last_distro' = [last_distro EXCEPT ![backstop] = now]
    /\ minted' = [minted EXCEPT ![backstop] = @ + DistributionAmount]
    /\ UNCHANGED <<now, backstop, backstop_token, queued_swap, dropped, balance,
                   drop_minted, active_time, queued_at>>

\* (Mutant: a tie is enough.)
IsNewBackstopAsLarge(b) ==
    balance[backstop_token][b] >= balance[backstop_token][backstop]
IsNewBackstopLarger(b) ==
    balance[backstop_token][b] > balance[backstop_token][backstop]

QueueSwapBackstop(b, t) ==
    /\ backstop # None
    /\ queued_swap = None
    /\ IsNewBackstopLarger(b)
    /\ queued_swap' = [new_backstop |-> b, new_backstop_token |-> t,
                       unlock_time |-> now + SwapLock]
    /\ queued_at' = now
    /\ UNCHANGED <<now, backstop, backstop_token, last_distro, dropped, balance,
                   minted, drop_minted, active_time>>

\* Only a swap that lost its lead can be cancelled. (Mutant: not at a tie.)
MayCancelUnlessTied == ~ IsNewBackstopAsLarge(queued_swap.new_backstop)
MayCancel == ~ IsNewBackstopLarger(queued_swap.new_backstop)

CancelSwapBackstop ==
    /\ queued_swap # None
    /\ MayCancel
    /\ queued_swap' = None /\ queued_at' = None
    /\ UNCHANGED <<now, backstop, backstop_token, last_distro, dropped, balance,
                   minted, drop_minted, active_time>>

\* execute_distribute, then set_last_distro_time of the new backstop. (Mutant:
\* the latter only for an address that has no distribution time yet.)
LastDistroStartedOnce(new) ==
    [last_distro EXCEPT ![backstop] = now,
                        ![new] = IF @ = None THEN now ELSE @]
LastDistroAfterSwap(new) ==
    [last_distro EXCEPT ![backstop] = now, ![new] = now]

\* The outgoing backstop is distributed to first, then the new one starts.
SwapBackstop ==
    /\ queued_swap # None
    /\ queued_swap.unlock_time <= now
    /\ IsNewBackstopLarger(queued_swap.new_backstop)
    /\ minted' = [minted EXCEPT ![backstop] = @ + DistributionAmount]
    /\ backstop' = queued_swap.new_backstop
    /\ backstop_token' = queued_swap.new_backstop_token
    /\ last_distro' = LastDistroAfterSwap(queued_swap.new_backstop)
    /\ queued_swap' = None /\ queued_at' = None
    /\ UNCHANGED <<now, dropped, balance, drop_minted, active_time>>

\* (Mutant: the cap alone, without the drop status.)
DropWithinCap(total) == total <= DropCap
MayDrop(total) == backstop \notin dropped /\ total <= DropCap

\* The active backstop mints a list of amounts that sum to total.
Drop(total) ==
    /\ backstop # None
    /\ MayDrop(total)
    /\ dropped' = dropped \cup {backstop}
    /\ drop_minted' = [drop_minted EXCEPT ![backstop] = @ + total]
    /\ UNCHANGED <<now, backstop, backstop_token, queued_swap, last_distro, balance,
                   minted, active_time, queued_at>>

\* External: backstop token balances move without the emitter.
MoveBackstopTokens(t, b, amount) ==
    /\ balance' = [balance EXCEPT ![t][b] = amount]
    /\ UNCHANGED <<now, contract, minted, drop_minted, active_time, queued_at>>

\* The ledger closes one time unit later.
Tick ==
    /\ now < MaxTime
    /\ now' = now + 1
    /\ active_time' = [b \in Backstops |-> IF b = backstop THEN active_time[b] + 1
                                                           ELSE active_time[b]]
    /\ UNCHANGED <<contract, balance, minted, drop_minted, queued_at>>

Next == \/ \E b \in Backstops, t \in Tokens : Initialize(b, t) \/ QueueSwapBackstop(b, t)
        \/ Distribute \/ CancelSwapBackstop \/ SwapBackstop
        \/ \E total \in DropTotals : Drop(total)
        \/ \E t \in Tokens, b \in Backstops, amount \in Amounts :
              MoveBackstopTokens(t, b, amount)
        \/ Tick

Spec == Init /\ [][Next]_vars

\* swap_backstop and cancel_swap_backstop take no authorization: anybody whom
\* the queued swap concerns can resolve it, and the ledger keeps closing.
Fairness == WF_vars(Tick) /\ WF_vars(SwapBackstop \/ CancelSwapBackstop)
FairSpec == Spec /\ Fairness
-----------------------------------------------------------------------------
TypeOK == /\ now \in Nat
          /\ backstop \in Backstops \cup {None}
          /\ backstop_token \in Tokens \cup {None}
          /\ queued_swap \in Swaps \cup {None}
          /\ last_distro \in [Backstops -> Nat \cup {None}]
          /\ dropped \subseteq Backstops
          /\ balance \in [Tokens -> [Backstops -> Nat]]
          /\ minted \in [Backstops -> Nat]
          /\ drop_minted \in [Backstops -> Nat]
          /\ active_time \in [Backstops -> Nat]
          /\ queued_at \in Nat \cup {None}

\* What a backstop has earned and not been paid.
Pending(b) == IF b = backstop THEN (now - last_distro[b]) * Scalar7 ELSE 0

\* Over any sequence of distributions and swaps, also one that swaps an old
\* backstop back in, each backstop has been minted, or is still owed, one token
\* for every second it was active: no second is paid twice or lost at a swap.
EmissionsExact ==
    \A b \in Backstops : minted[b] + Pending(b) = active_time[b] * Scalar7

\* The drop calls of a backstop, over every time it was active, mint at most
\* DropCap in total, and only an address that has been active ever drops.
DropOncePerBackstop ==
    \A b \in Backstops : /\ drop_minted[b] <= DropCap
                         /\ drop_minted[b] > 0 => last_distro[b] # None

\* The active backstop is replaced only by the address that was announced in
\* the queue for the whole lock, and only while that address holds strictly
\* more of the outgoing backstop's token than the outgoing backstop.
SwapAnnouncedAndLarger ==
    [][backstop # None /\ backstop' # backstop =>
          /\ queued_swap # None /\ backstop' = queued_swap.new_backstop
          /\ queued_at + SwapLock <= now
          /\ balance[backstop_token][backstop'] > balance[backstop_token][backstop]]_vars

\* Once queued and unlocked, a swap is executed or cancelled whatever happens to
\* the balances, ties included: it cannot block the queue for ever.
QueueResolved == queued_swap # None /\ queued_swap.unlock_time <= MaxTime
                    ~> queued_swap = None

Schedule == INSTANCE EmissionSchedule WITH
    Rate <- Scalar7, active <- backstop, paid <- minted,
    earned <- [b \in Backstops |-> minted[b] + Pending(b)]

\* The emitter implements the abstract emission schedule.
ImplementsSchedule == Schedule!Spec
=============================================================================
