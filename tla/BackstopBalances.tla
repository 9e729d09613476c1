-------------------------- MODULE BackstopBalances --------------------------
(***************************************************************************)
(* The values the backstop computes with: a pool's balance of shares and   *)
(* tokens (backstop/pool.rs), a user's shares and withdrawal queue         *)
(* (backstop/user.rs), and the emission indices (emissions/distributor.rs). *)
(* Each operator is the value a method leaves; what makes the method panic  *)
(* is a predicate beside it.                                               *)
(***************************************************************************)
EXTENDS FixedPoint, SequencesExt

CONSTANTS Scalar7,      \* SCALAR_7
          Q4WLockTime,  \* Q4W_LOCK_TIME, 21 days
          MaxQ4WSize    \* MAX_Q4W_SIZE

ASSUME BalancesAssumption ==
    Scalar7 \in Nat \ {0} /\ Q4WLockTime \in Nat /\ MaxQ4WSize \in Nat
-----------------------------------------------------------------------------
Q4W == [amount : Nat, exp : Nat]
UserBalance == [shares : Nat, q4w : Seq(Q4W)]

EmptyPool == [shares |-> 0, tokens |-> 0, q4w |-> 0]
EmptyUser == [shares |-> 0, q4w |-> <<>>]

\* With shares issued but no tokens left the conversion divides by zero.
CanConvertToShares(pool) == pool.shares = 0 \/ pool.tokens # 0

\* (Mutant: the conversion rounds in the depositor's favour.)
ConvertToSharesCeil(pool, tokens) ==
    IF pool.shares = 0 THEN tokens ELSE MulCeil(tokens, pool.shares, pool.tokens)
ConvertToShares(pool, tokens) ==
    IF pool.shares = 0 THEN tokens ELSE MulFloor(tokens, pool.shares, pool.tokens)

ConvertToTokens(pool, shares) ==
    IF pool.shares = 0 THEN shares ELSE MulFloor(shares, pool.tokens, pool.shares)

NonQueuedTokens(pool) == pool.tokens - ConvertToTokens(pool, pool.q4w)

DepositInto(pool, tokens, shares) ==
    [shares |-> pool.shares + shares, tokens |-> pool.tokens + tokens, q4w |-> pool.q4w]

CanWithdraw(pool, tokens, shares) ==
    tokens <= pool.tokens /\ shares <= pool.shares /\ shares <= pool.q4w

\* (Mutants: the withdrawn shares stay counted as queued; the tokens are kept.)
WithdrawKeepingQ4W(pool, tokens, shares) ==
    [pool EXCEPT !.tokens = @ - tokens, !.shares = @ - shares]
WithdrawKeepingTokens(pool, tokens, shares) ==
    [pool EXCEPT !.shares = @ - shares, !.q4w = @ - shares]
WithdrawFrom(pool, tokens, shares) ==
    [shares |-> pool.shares - shares, tokens |-> pool.tokens - tokens,
     q4w |-> pool.q4w - shares]
-----------------------------------------------------------------------------
CanQueueShares(user, amount) == amount <= user.shares /\ Len(user.q4w) < MaxQ4WSize

QueueShares(user, amount, time) ==
    [shares |-> user.shares - amount,
     q4w |-> Append(user.q4w, [amount |-> amount, exp |-> time + Q4WLockTime])]

\* One turn of the loop of dequeue_shares_for_withdrawal: left is what remains
\* to dequeue, kept the rest of the queue, locked whether an entry the loop
\* looked at had not expired.
DequeueTurn(acc, cur) ==
    IF acc.done THEN [acc EXCEPT !.kept = Append(@, cur)]
    ELSE [left |-> IF cur.amount > acc.left THEN 0 ELSE acc.left - cur.amount,
          kept |-> IF cur.amount > acc.left
                   THEN <<[cur EXCEPT !.amount = @ - acc.left]>> ELSE <<>>,
          locked |-> acc.locked \/ cur.exp > acc.time,
          done |-> cur.amount >= acc.left, time |-> acc.time]

DequeueStart(amount, time) ==
    [left |-> amount, kept |-> <<>>, locked |-> FALSE, done |-> FALSE, time |-> time]

\* (Mutant: the entry that is consumed in part goes back to the wrong end.)
DequeuePushBack(q4w, amount, time) ==
    LET acc == FoldLeft(DequeueTurn, DequeueStart(amount, time), q4w)
    IN  [acc EXCEPT !.kept = IF @ = <<>> THEN @ ELSE Append(Tail(@), Head(@))]
Dequeue(q4w, amount, time) ==
    FoldLeft(DequeueTurn, DequeueStart(amount, time), q4w)
-----------------------------------------------------------------------------
\* update_emission_data_with_config returns the stored data: nothing to add.
EmissionsCurrent(config, data, pool, time) ==
    \/ data.last_time >= config.expiration \/ data.last_time = time
    \/ config.eps = 0 \/ pool.shares = 0

\* Otherwise it divides by the shares that are not queued.
CanUpdateData(config, data, pool, time) ==
    EmissionsCurrent(config, data, pool, time) \/ pool.shares > pool.q4w

UpdatedData(config, data, pool, time) ==
    IF EmissionsCurrent(config, data, pool, time) THEN data
    ELSE [index |-> data.index + DivFloor(
                        (AtMost(time, config.expiration) - data.last_time) * config.eps,
                        pool.shares - pool.q4w, Scalar7),
          last_time |-> time]

\* What a user is due at an index. Without a record the user is due the whole
\* index on its shares, as if it held them since emissions began.
Accrued(record, shares, index) ==
    record.accrued + MulFloor(shares, index - record.index, Scalar7)
NoRecord == [index |-> 0, accrued |-> 0]
=============================================================================
