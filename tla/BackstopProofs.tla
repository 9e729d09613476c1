--------------------------- MODULE BackstopProofs ---------------------------
(***************************************************************************)
(* Theorems about Backstop, for every set of pools, users and amounts.     *)
(***************************************************************************)
EXTENDS Backstop, ArithmeticProofs, SequenceTheorems

\* What holds of zero, and of each number up to n once it holds of the one before,
\* holds of all of them.
LEMMA UpTo ==
    ASSUME NEW n \in Nat, NEW T, 0 \in T, \A k \in 1..n : k - 1 \in T => k \in T
    PROVE  \A k \in 0..n : k \in T
  <1> DEFINE All == 0..n
             Through == {s \in SUBSET All : \A k \in All : s = 0..k => k \in T}
  <1>1. ASSUME NEW s \in SUBSET All, \A t \in SUBSET s : t # s => t \in Through
        PROVE  s \in Through
    <2>1. ASSUME NEW k \in All, s = 0..k PROVE k \in T
      <3>1. CASE k # 0
        <4>1. k - 1 \in 0..n /\ 0..(k - 1) \in SUBSET s /\ k \notin 0..(k - 1) /\ k \in s
          BY <2>1, <3>1
        <4>2. 0..(k - 1) \in Through
          BY <1>1, <4>1
        <4> QED BY <3>1, <4>1, <4>2
      <3> QED BY <3>1
    <2> QED BY <2>1
  <1>2. IsFiniteSet(All)
    BY FS_Interval
  <1>3. \A k \in All : 0..k \in SUBSET All
    OBVIOUS
  <1> HIDE DEF Through, All
  <1>4. SUBSET All \subseteq Through
    BY <1>1, <1>2, SetInduction
  <1>5. \A k \in All : k \in T
    BY <1>3, <1>4 DEF Through
  <1> QED BY <1>5 DEF All

-----------------------------------------------------------------------------
\* The loop over the queue q, as a function of the entries in U it has seen.
Latest(s) == Max(s)
Turns(g, q, start, U) ==
    g = [s \in SUBSET U |->
           IF s = {} THEN start ELSE DequeueTurn(g[s \ {Latest(s)}], q[Latest(s)])]

\* What is left without the last entry is a strict subset.
LEMMA LatestTaken ==
    ASSUME NEW n \in Nat, NEW s \in SUBSET (1..n), s # {}
    PROVE  Latest(s) \in s /\ s \ {Latest(s)} \in SUBSET s /\ s \ {Latest(s)} # s
  <1> DEFINE T == {k \in 0..n : \A t \in SUBSET (1..k) :
                     t # {} => \E x \in t : \A y \in t : x >= y}
  <1>1. 0 \in T
    <2>1. 0 \in 0..n /\ 1..0 = {}
      OBVIOUS
    <2> QED BY <2>1
  <1>2. ASSUME NEW k \in 1..n, k - 1 \in T PROVE k \in T
    <2>1. ASSUME NEW t \in SUBSET (1..k), t # {}
          PROVE  \E x \in t : \A y \in t : x >= y
      <3>1. CASE k \in t
        BY <3>1
      <3>2. CASE k \notin t
        <4>1. t \in SUBSET (1..(k - 1))
          BY <3>2
        <4> QED BY <1>2, <2>1, <4>1
      <3> QED BY <3>1, <3>2
    <2>2. k \in 0..n
      OBVIOUS
    <2> QED BY <2>1, <2>2, Zenon
  <1> HIDE DEF T
  <1>3. n \in T
    BY <1>1, <1>2, UpTo
  <1>4. \E x \in s : \A y \in s : x >= y
    BY <1>3 DEF T
  <1> QED BY <1>4 DEF Latest, Max

\* Two loops agree on the entries both have seen.
LEMMA TurnsAgree ==
    ASSUME NEW q, NEW start, NEW S, NEW U, NEW g, NEW h, NEW n \in Nat, NEW s,
           s \in SUBSET (1..n), s \subseteq S, s \subseteq U,
           Turns(g, q, start, S), Turns(h, q, start, U)
    PROVE  g[s] = h[s]
  <1> DEFINE T == {t \in SUBSET s : g[t] = h[t]}
  <1>1. ASSUME NEW t \in SUBSET s, \A u \in SUBSET t : u # t => u \in T
        PROVE  t \in T
    <2>0. t \in SUBSET S /\ t \in SUBSET U
      OBVIOUS
    <2>1. CASE t = {}
      BY <2>0, <2>1 DEF Turns
    <2>2. CASE t # {}
      <3>1. t \ {Latest(t)} \in SUBSET t /\ t \ {Latest(t)} # t
        BY <2>2, LatestTaken
      <3>2. g[t \ {Latest(t)}] = h[t \ {Latest(t)}]
        BY <1>1, <3>1
      <3>3. /\ g[t] = DequeueTurn(g[t \ {Latest(t)}], q[Latest(t)])
            /\ h[t] = DequeueTurn(h[t \ {Latest(t)}], q[Latest(t)])
        BY <2>0, <2>2 DEF Turns
      <3> QED BY <3>2, <3>3
    <2> QED BY <2>1, <2>2
  <1>2. IsFiniteSet(s)
    <2>1. IsFiniteSet(1..n)
      BY FS_Interval
    <2> QED BY <2>1, FS_Subset
  <1> HIDE DEF T
  <1>3. SUBSET s \subseteq T
    BY <1>1, <1>2, SetInduction
  <1>4. s \in T
    BY <1>3
  <1> QED BY <1>4 DEF T

\* The loop over every queue is defined.
LEMMA TurnsExist ==
    ASSUME NEW q, NEW n \in Nat, NEW start
    PROVE  \E g : Turns(g, q, start, 1..n)
  <1> DEFINE All == 1..n
             T == {s \in SUBSET All : \E g : Turns(g, q, start, s)}
  <1>1. ASSUME NEW s \in SUBSET All, \A t \in SUBSET s : t # s => t \in T
        PROVE  s \in T
    <2> DEFINE loop(t) == CHOOSE h : Turns(h, q, start, t)
               before(t) == t \ {Latest(t)}
               after(t) == IF t = {} THEN start
                           ELSE DequeueTurn(loop(before(t))[before(t)], q[Latest(t)])
               g == [t \in SUBSET s |-> after(t)]
    <2>1. \A t \in SUBSET s : t # s => Turns(loop(t), q, start, t)
      BY <1>1
    <2>2. \A t \in SUBSET s : t # {} => before(t) \in SUBSET t /\ before(t) # t
      BY LatestTaken
    <2> HIDE DEF loop, before
    <2>3. ASSUME NEW t \in SUBSET s, t # s PROVE g[t] = loop(t)[t]
      <3>1. Turns(loop(t), q, start, t)
        BY <2>1, <2>3
      <3>2. CASE t = {}
        BY <3>1, <3>2 DEF Turns
      <3>3. CASE t # {}
        <4>1. before(t) \in SUBSET t /\ before(t) \in SUBSET s /\ before(t) # s
          BY <2>2, <2>3, <3>3
        <4>2. Turns(loop(before(t)), q, start, before(t))
          BY <2>1, <4>1
        <4>3. /\ t \in SUBSET (1..n) /\ before(t) \in SUBSET (1..n)
              /\ before(t) \subseteq before(t) /\ before(t) \subseteq t
          BY <4>1
        <4>4. loop(before(t))[before(t)] = loop(t)[before(t)]
          BY <3>1, <4>2, <4>3, TurnsAgree
        <4>5. loop(t)[t] = DequeueTurn(loop(t)[before(t)], q[Latest(t)])
          BY <3>1, <3>3 DEF Turns, before
        <4> QED BY <3>3, <4>4, <4>5
      <3> QED BY <3>2, <3>3
    <2>4. ASSUME NEW t \in SUBSET s
          PROVE  g[t] = IF t = {} THEN start ELSE DequeueTurn(g[before(t)], q[Latest(t)])
      <3>1. CASE t # {}
        <4>1. before(t) \in SUBSET s /\ before(t) # s
          BY <2>2, <3>1
        <4>2. g[before(t)] = loop(before(t))[before(t)]
          BY <2>3, <4>1
        <4>3. g[t] = DequeueTurn(loop(before(t))[before(t)], q[Latest(t)])
          BY <3>1
        <4> QED BY <3>1, <4>2, <4>3
      <3> QED BY <3>1
    <2>5. g = [t \in SUBSET s |-> g[t]]
      OBVIOUS
    <2> HIDE DEF g
    <2>6. g = [t \in SUBSET s |-> IF t = {} THEN start
                                  ELSE DequeueTurn(g[before(t)], q[Latest(t)])]
      BY <2>4, <2>5
    <2> QED BY <2>6 DEF Turns, before
  <1>2. IsFiniteSet(All)
    BY FS_Interval
  <1> HIDE DEF T, All
  <1>3. All \in T
    BY <1>1, <1>2, SetInduction
  <1> QED BY <1>3 DEF T, All

\* The loop goes through the queue from its front: what it makes of each entry
\* follows from what it made of those before.
LEMMA DequeueLoop ==
    ASSUME NEW q \in Seq(Q4W), NEW amount, NEW time
    PROVE  \E f : /\ f[0] = DequeueStart(amount, time)
                  /\ \A k \in 1..Len(q) : f[k] = DequeueTurn(f[k - 1], q[k])
                  /\ f[Len(q)] = Dequeue(q, amount, time)
  <1> DEFINE start == DequeueStart(amount, time)
             n == Len(q)
             g == CHOOSE g : Turns(g, q, start, 1..n)
             f == [k \in 0..n |-> g[1..k]]
  <1>1. n \in Nat /\ DOMAIN q = 1..n
    OBVIOUS
  <1> HIDE DEF n
  <1>2. Turns(g, q, start, 1..n)
    BY <1>1, TurnsExist
  <1>3. Dequeue(q, amount, time) = g[1..n]
    BY <1>1 DEF Dequeue, FoldLeft, MapThenFoldSet, Turns, Latest
  <1> HIDE DEF g
  <1>4. f[0] = start
    BY <1>1, <1>2 DEF Turns
  <1>5. ASSUME NEW k \in 1..n PROVE f[k] = DequeueTurn(f[k - 1], q[k])
    <2>1. 1..k \in SUBSET (1..n) /\ 1..k # {} /\ k \in 1..k
      BY <1>1
    <2>2. Latest(1..k) = k
      <3>1. Latest(1..k) \in 1..k
        BY <1>1, <2>1, LatestTaken
      <3>2. \E x \in 1..k : \A y \in 1..k : x >= y
        BY <2>1
      <3>3. \A y \in 1..k : Latest(1..k) >= y
        BY <3>2 DEF Latest, Max
      <3> QED BY <2>1, <3>1, <3>3
    <2>3. (1..k) \ {k} = 1..(k - 1)
      BY <1>1
    <2>4. g[1..k] = DequeueTurn(g[1..(k - 1)], q[k])
      BY <1>2, <2>1, <2>2, <2>3 DEF Turns
    <2>5. f[k] = g[1..k] /\ f[k - 1] = g[1..(k - 1)]
      BY <1>1
    <2> QED BY <2>4, <2>5
  <1>6. f[n] = g[1..n]
    BY <1>1
  <1> QED BY <1>3, <1>4, <1>5, <1>6 DEF n

-----------------------------------------------------------------------------
\* The shares in a queue, and in its first k entries.
Queued(q) == Total([i \in DOMAIN q |-> q[i].amount])
QueuedIn(q, k) == Total([i \in 1..k |-> q[i].amount])

\* The entries of a queue are records of numbers.
LEMMA Entries ==
    ASSUME NEW q \in Seq(Q4W)
    PROVE  /\ Len(q) \in Nat /\ DOMAIN q = 1..Len(q)
           /\ \A i \in 1..Len(q) : q[i] \in Q4W /\ q[i].amount \in Nat /\ q[i].exp \in Nat
  <1>1. \A i \in 1..Len(q) : q[i] \in Q4W
    BY ElementOfSeq
  <1>2. \A e \in Q4W : e.amount \in Nat /\ e.exp \in Nat
    BY DEF Q4W
  <1> QED BY <1>1, <1>2, LenProperties

\* The shares of a queue, and of any first part of it, are a number.
LEMMA QueuedNat ==
    ASSUME NEW q \in Seq(Q4W)
    PROVE  Queued(q) \in Nat /\ \A k \in 0..Len(q) : QueuedIn(q, k) \in Nat
  <1>1. Queued(q) \in Nat
    <2>1. [i \in DOMAIN q |-> q[i].amount] \in [1..Len(q) -> Nat] /\ IsFiniteSet(1..Len(q))
      <3>1. IsFiniteSet(1..Len(q))
        BY Entries, FS_Interval
      <3> QED BY <3>1, Entries
    <2> QED BY <2>1, TotalNat DEF Queued
  <1>2. ASSUME NEW k \in 0..Len(q) PROVE QueuedIn(q, k) \in Nat
    <2>1. [i \in 1..k |-> q[i].amount] \in [1..k -> Nat] /\ IsFiniteSet(1..k)
      <3>1. \A i \in 1..k : i \in 1..Len(q)
        BY Entries
      <3>2. k \in Int
        BY Entries
      <3>3. IsFiniteSet(1..k)
        BY <3>2, FS_Interval
      <3> QED BY <3>1, <3>3, Entries
    <2> QED BY <2>1, TotalNat DEF QueuedIn
  <1> QED BY <1>1, <1>2

\* An empty queue has no shares.
LEMMA QueuedNone == \A q : Queued(<<>>) = 0 /\ QueuedIn(q, 0) = 0
  <1>1. \A q : [i \in 1..0 |-> q[i].amount] = [i \in {} |-> 0]
    OBVIOUS
  <1>2. [i \in DOMAIN <<>> |-> <<>>[i].amount] = [i \in {} |-> 0]
    OBVIOUS
  <1>3. Total([i \in {} |-> 0]) = 0
    BY TotalZero, FS_EmptySet
  <1> QED BY <1>1, <1>2, <1>3 DEF Queued, QueuedIn

\* A total over a longer interval.
LEMMA TotalExtends ==
    ASSUME NEW k \in Nat, NEW U, U = 1..(k + 1), NEW f \in [U -> Nat]
    PROVE  Total(f) = Total([i \in 1..k |-> f[i]]) + f[k + 1]
  <1> DEFINE n == k + 1
  <1>1. n \in U /\ U \ {n} = 1..k
    OBVIOUS
  <1>2. IsFiniteSet(U)
    BY FS_Interval
  <1> HIDE DEF n
  <1>3. Total(f) = Total([x \in U \ {n} |-> f[x]]) + f[n]
    BY <1>1, <1>2, TotalWithout
  <1> QED BY <1>1, <1>3 DEF n

\* An entry appended to a queue adds its shares.
LEMMA QueuedAppend ==
    ASSUME NEW q \in Seq(Q4W), NEW e \in Q4W
    PROVE  Queued(Append(q, e)) = Queued(q) + e.amount
  <1> DEFINE f == [i \in 1..(Len(q) + 1) |-> Append(q, e)[i].amount]
  <1>1. /\ Append(q, e) \in Seq(Q4W) /\ Len(Append(q, e)) = Len(q) + 1
        /\ \A i \in 1..Len(q) : Append(q, e)[i] = q[i]
        /\ Append(q, e)[Len(q) + 1] = e
    BY AppendProperties
  <1>2. Len(q) \in Nat /\ f \in [1..(Len(q) + 1) -> Nat]
    BY <1>1, Entries
  <1>3. /\ DOMAIN Append(q, e) = 1..(Len(q) + 1) /\ DOMAIN q = 1..Len(q)
        /\ [i \in 1..Len(q) |-> f[i]] = [i \in DOMAIN q |-> q[i].amount]
        /\ f[Len(q) + 1] = e.amount
    BY <1>1
  <1>4. Queued(Append(q, e)) = Total(f)
    BY <1>3 DEF Queued
  <1> HIDE DEF f
  <1>5. Total(f) = Total([i \in 1..Len(q) |-> f[i]]) + f[Len(q) + 1]
    BY <1>2, TotalExtends
  <1> QED BY <1>3, <1>4, <1>5 DEF Queued

\* The first k entries have the shares of the k - 1 before and of entry k.
LEMMA QueuedExtends ==
    ASSUME NEW q \in Seq(Q4W), NEW k \in 1..Len(q)
    PROVE  QueuedIn(q, k) = QueuedIn(q, k - 1) + q[k].amount
  <1> DEFINE f == [i \in 1..k |-> q[i].amount]
  <1>1. k - 1 \in Nat /\ k - 1 + 1 = k
    OBVIOUS
  <1>2. f \in [1..(k - 1 + 1) -> Nat]
    BY <1>1, Entries
  <1>3. f[k] = q[k].amount /\ [i \in 1..(k - 1) |-> f[i]] = [i \in 1..(k - 1) |-> q[i].amount]
    OBVIOUS
  <1>4. QueuedIn(q, k) = Total(f)
    BY DEF QueuedIn
  <1> HIDE DEF f
  <1>5. Total(f) = Total([i \in 1..(k - 1) |-> f[i]]) + f[k]
    BY <1>1, <1>2, TotalExtends
  <1> QED BY <1>3, <1>4, <1>5 DEF QueuedIn

\* What the loop has made of the first k entries of q: the shares it took are
\* gone from those it keeps, which are the last of them and expire as they did.
Progress == [left : Nat, kept : Seq(Q4W), locked : BOOLEAN, done : BOOLEAN, time : Nat]
Taken(acc, q, k, amount) ==
    /\ acc \in Progress
    /\ acc.left <= amount
    /\ acc.done => acc.left = 0
    /\ ~ acc.done => acc.kept = <<>>
    /\ QueuedIn(q, k) = Queued(acc.kept) + amount - acc.left
    /\ Len(acc.kept) <= k
    /\ \A i \in 1..Len(acc.kept) : acc.kept[i].exp = q[k - Len(acc.kept) + i].exp

\* One turn of dequeue_shares_for_withdrawal's loop keeps what was said of the
\* turns before it.
LEMMA TurnTakes ==
    ASSUME NEW q \in Seq(Q4W), NEW k \in 1..Len(q), NEW amount \in Nat, NEW acc,
           Taken(acc, q, k - 1, amount)
    PROVE  Taken(DequeueTurn(acc, q[k]), q, k, amount)
  <1> DEFINE cur == q[k]
             new == DequeueTurn(acc, cur)
  <1>1. cur \in Q4W /\ cur.amount \in Nat /\ cur.exp \in Nat
    BY Entries
  <1>2. QueuedIn(q, k) = QueuedIn(q, k - 1) + cur.amount /\ QueuedIn(q, k - 1) \in Nat
    BY QueuedExtends, QueuedNat
  <1>3. /\ acc \in Progress /\ acc.left \in Nat /\ acc.left <= amount /\ acc.time \in Nat
        /\ acc.kept \in Seq(Q4W) /\ acc.locked \in BOOLEAN /\ acc.done \in BOOLEAN
    BY DEF Taken, Progress
  <1>4. cur = q[k]
    OBVIOUS
  <1> HIDE DEF cur
  <1> SUFFICES Taken(new, q, k, amount)
    BY <1>4
  <1>5. CASE acc.done
    <2>1. Append(acc.kept, cur) \in Seq(Q4W) /\ new = [acc EXCEPT !.kept = Append(@, cur)]
      BY <1>1, <1>3, <1>5, AppendProperties DEF DequeueTurn
    <2> HIDE DEF new
    <2>2. /\ new \in Progress
          /\ new.kept = Append(acc.kept, cur) /\ new.left = acc.left /\ new.done = acc.done
      BY <1>3, <2>1 DEF Progress
    <2>3. Queued(new.kept) = Queued(acc.kept) + cur.amount /\ Queued(acc.kept) \in Nat
      BY <1>1, <1>3, <2>2, QueuedAppend, QueuedNat
    <2>4. /\ Len(new.kept) = Len(acc.kept) + 1 /\ Len(acc.kept) \in Nat
          /\ \A i \in 1..Len(acc.kept) : new.kept[i] = acc.kept[i]
          /\ new.kept[Len(acc.kept) + 1] = cur
      BY <1>1, <1>3, <2>2, AppendProperties
    <2>5. /\ acc.left = 0 /\ QueuedIn(q, k - 1) = Queued(acc.kept) + amount - acc.left
          /\ Len(acc.kept) <= k - 1
          /\ \A i \in 1..Len(acc.kept) : acc.kept[i].exp = q[k - 1 - Len(acc.kept) + i].exp
      BY <1>5 DEF Taken
    <2>6. QueuedIn(q, k) = Queued(new.kept) + amount - new.left
      BY <1>1, <1>2, <2>2, <2>3, <2>5
    <2>7. ASSUME NEW i \in 1..Len(new.kept)
          PROVE  new.kept[i].exp = q[k - Len(new.kept) + i].exp
      <3>1. CASE i = Len(acc.kept) + 1
        <4>1. k \in Int
          BY Entries
        <4>2. Len(new.kept) = i /\ i \in Int
          BY <2>4, <3>1
        <4>3. k - Len(new.kept) + i = k
          BY <4>1, <4>2
        <4> QED BY <1>4, <2>4, <3>1, <4>3
      <3>2. CASE i # Len(acc.kept) + 1
        <4>1. i \in 1..Len(acc.kept) /\ k - Len(new.kept) + i = k - 1 - Len(acc.kept) + i
          BY <2>4, <3>2
        <4> QED BY <2>4, <2>5, <4>1
      <3> QED BY <3>1, <3>2
    <2>8. Len(new.kept) <= k /\ new.left <= amount /\ new.left = 0 /\ new.done
      BY <1>5, <2>2, <2>4, <2>5
    <2> QED BY <2>2, <2>6, <2>7, <2>8 DEF Taken
  <1>6. CASE ~ acc.done
    <2>1. QueuedIn(q, k - 1) = amount - acc.left
      <3>1. acc.kept = <<>> /\ QueuedIn(q, k - 1) = Queued(acc.kept) + amount - acc.left
        BY <1>6 DEF Taken
      <3> QED BY <1>3, <3>1, QueuedNone
    <2>2. CASE cur.amount > acc.left
      <3> DEFINE rest == [cur EXCEPT !.amount = @ - acc.left]
      <3>1. new = [left |-> 0, kept |-> <<rest>>, locked |-> acc.locked \/ cur.exp > acc.time,
                   done |-> cur.amount >= acc.left, time |-> acc.time]
        BY <1>6, <2>2 DEF DequeueTurn
      <3>2. cur.amount - acc.left \in Nat /\ cur.amount >= acc.left
        BY <1>1, <1>3, <2>2
      <3>3. rest \in Q4W /\ rest.amount = cur.amount - acc.left /\ rest.exp = cur.exp
        BY <1>1, <3>2 DEF Q4W
      <3> HIDE DEF rest, new
      <3>4. <<rest>> = Append(<<>>, rest) /\ <<>> \in Seq(Q4W) /\ <<rest>> \in Seq(Q4W)
        BY <3>3
      <3>5. Queued(<<rest>>) = cur.amount - acc.left
        <4>1. Queued(Append(<<>>, rest)) = Queued(<<>>) + rest.amount
          BY <3>3, <3>4, QueuedAppend
        <4> QED BY <3>2, <3>3, <3>4, <4>1, QueuedNone
      <3>6. QueuedIn(q, k) = Queued(<<rest>>) + amount - 0
        BY <1>1, <1>2, <1>3, <2>1, <3>5
      <3>7. Len(<<rest>>) = 1 /\ \A i \in 1..1 : <<rest>>[i].exp = q[k - 1 + i].exp
        BY <1>4, <3>3
      <3>8. /\ new \in Progress /\ new.left = 0 /\ new.kept = <<rest>> /\ new.done
        BY <1>3, <3>1, <3>2, <3>4 DEF Progress
      <3>9. 0 <= amount /\ 1 <= k
        OBVIOUS
      <3> QED BY <3>6, <3>7, <3>8, <3>9 DEF Taken
    <2>3. CASE ~ cur.amount > acc.left
      <3>1. new = [left |-> acc.left - cur.amount, kept |-> <<>>,
                   locked |-> acc.locked \/ cur.exp > acc.time,
                   done |-> cur.amount >= acc.left, time |-> acc.time]
        BY <1>6, <2>3 DEF DequeueTurn
      <3>2. /\ acc.left - cur.amount \in Nat /\ acc.left - cur.amount <= amount
            /\ cur.amount >= acc.left => acc.left - cur.amount = 0
            /\ <<>> \in Seq(Q4W)
        BY <1>1, <1>3, <2>3
      <3>3. QueuedIn(q, k) = Queued(<<>>) + amount - (acc.left - cur.amount)
        BY <1>1, <1>2, <1>3, <2>1, QueuedNone
      <3> HIDE DEF new
      <3>4. /\ new \in Progress /\ new.left = acc.left - cur.amount /\ new.kept = <<>>
            /\ new.done => new.left = 0
        <4>1. (cur.amount >= acc.left) \in BOOLEAN /\ (acc.locked \/ cur.exp > acc.time) \in BOOLEAN
          OBVIOUS
        <4>2. new \in Progress
          BY <1>3, <3>1, <3>2, <4>1 DEF Progress
        <4> QED BY <3>1, <3>2, <4>2
      <3>5. Len(<<>>) = 0 /\ 0 <= k /\ 1..0 = {}
        OBVIOUS
      <3> QED BY <3>2, <3>3, <3>4, <3>5 DEF Taken
    <2> QED BY <2>2, <2>3
  <1> QED BY <1>5, <1>6

\* Dequeueing takes the amount, or what there is of it, and keeps the order.
LEMMA Dequeued ==
    ASSUME NEW q \in Seq(Q4W), NEW amount \in Nat, NEW time \in Nat
    PROVE  Taken(Dequeue(q, amount, time), q, Len(q), amount) /\ QueuedIn(q, Len(q)) = Queued(q)
  <1>1. PICK f : /\ f[0] = DequeueStart(amount, time)
                 /\ \A k \in 1..Len(q) : f[k] = DequeueTurn(f[k - 1], q[k])
                 /\ f[Len(q)] = Dequeue(q, amount, time)
    BY DequeueLoop
  <1> DEFINE T == {k \in 0..Len(q) : Taken(f[k], q, k, amount)}
  <1>2. 0 \in T
    <2> DEFINE start == DequeueStart(amount, time)
    <2>1. /\ start \in Progress /\ start.left = amount /\ start.kept = <<>> /\ ~ start.done
      BY DEF Progress, DequeueStart
    <2> HIDE DEF start
    <2>2. QueuedIn(q, 0) = Queued(<<>>) + amount - amount /\ Len(<<>>) = 0 /\ 1..0 = {}
      BY QueuedNone
    <2>3. Taken(start, q, 0, amount)
      BY <2>1, <2>2 DEF Taken
    <2> QED BY <1>1, <2>3, Entries DEF start
  <1>3. ASSUME NEW k \in 1..Len(q), k - 1 \in T PROVE k \in T
    BY <1>1, <1>3, TurnTakes
  <1>4. Len(q) \in Nat /\ Len(q) \in 0..Len(q) /\ DOMAIN q = 1..Len(q)
    OBVIOUS
  <1> HIDE DEF T
  <1>5. Len(q) \in T
    BY <1>2, <1>3, <1>4, UpTo
  <1>6. QueuedIn(q, Len(q)) = Queued(q)
    BY <1>4 DEF Queued, QueuedIn
  <1> QED BY <1>1, <1>5, <1>6 DEF T

-----------------------------------------------------------------------------
\* A pool's shares and queued shares are those of its users.
UserShares(ubs) == [u \in Users |-> ubs[u].shares]
UserQueued(ubs) == [u \in Users |-> Queued(ubs[u].q4w)]
Owned(pool, ubs) == /\ pool.q4w = Total(UserQueued(ubs))
                    /\ pool.shares = pool.q4w + Total(UserShares(ubs))

\* There are finitely many users and pools.
LEMMA Finite == IsFiniteSet(Users) /\ IsFiniteSet(Pools)
  BY BackstopAssumption

\* A pool whose shares are its users' has at least the shares it has queued.
LEMMA OwnedBounds ==
    ASSUME NEW pool \in PoolBalance, NEW ubs \in [Users -> UserBalance], Owned(pool, ubs)
    PROVE  /\ pool.shares \in Nat /\ pool.q4w \in Nat /\ pool.tokens \in Nat
           /\ pool.q4w <= pool.shares
           /\ \A u \in Users : ubs[u].shares \in Nat /\ ubs[u].shares <= pool.shares - pool.q4w
  <1>1. pool.shares \in Nat /\ pool.q4w \in Nat /\ pool.tokens \in Nat
    BY DEF PoolBalance
  <1>2. UserShares(ubs) \in [Users -> Nat] /\ \A u \in Users : UserShares(ubs)[u] = ubs[u].shares
    BY DEF UserShares, UserBalance
  <1>3. /\ Total(UserShares(ubs)) \in Nat
        /\ \A u \in Users : UserShares(ubs)[u] <= Total(UserShares(ubs))
    BY <1>2, TotalNat, Finite
  <1> QED BY <1>1, <1>2, <1>3 DEF Owned

\* What a pool and one of its users gain and lose together.
LEMMA OwnedFollows ==
    ASSUME NEW pool \in PoolBalance, NEW ubs \in [Users -> UserBalance], Owned(pool, ubs),
           NEW new \in PoolBalance, NEW u \in Users, NEW ub \in UserBalance,
           new.q4w - pool.q4w = Queued(ub.q4w) - Queued(ubs[u].q4w),
           new.shares - pool.shares = new.q4w - pool.q4w + ub.shares - ubs[u].shares
    PROVE  Owned(new, [ubs EXCEPT ![u] = ub])
  <1> DEFINE after == [ubs EXCEPT ![u] = ub]
  <1>1. after \in [Users -> UserBalance] /\ after[u] = ub /\ \A v \in Users \ {u} : after[v] = ubs[v]
    OBVIOUS
  <1> HIDE DEF after
  <1>2. /\ UserShares(ubs) \in [Users -> Nat] /\ UserShares(after) \in [Users -> Nat]
        /\ UserShares(ubs)[u] = ubs[u].shares /\ UserShares(after)[u] = ub.shares
        /\ \A v \in Users \ {u} : UserShares(after)[v] = UserShares(ubs)[v]
    BY <1>1 DEF UserShares, UserBalance
  <1>3. Total(UserShares(after)) = Total(UserShares(ubs)) + ub.shares - ubs[u].shares
    <2>1. Total(UserShares(after)) = Total(UserShares(ubs)) + UserShares(after)[u] - UserShares(ubs)[u]
      BY <1>2, TotalFollows, Finite
    <2> QED BY <1>2, <2>1
  <1>4. \A v \in Users : Queued(ubs[v].q4w) \in Nat /\ Queued(after[v].q4w) \in Nat
    BY <1>1, QueuedNat DEF UserBalance
  <1>5. /\ UserQueued(ubs) \in [Users -> Nat] /\ UserQueued(after) \in [Users -> Nat]
        /\ UserQueued(ubs)[u] = Queued(ubs[u].q4w) /\ UserQueued(after)[u] = Queued(ub.q4w)
        /\ \A v \in Users \ {u} : UserQueued(after)[v] = UserQueued(ubs)[v]
    BY <1>1, <1>4 DEF UserQueued
  <1>6. Total(UserQueued(after)) = Total(UserQueued(ubs)) + Queued(ub.q4w) - Queued(ubs[u].q4w)
    <2>1. Total(UserQueued(after)) = Total(UserQueued(ubs)) + UserQueued(after)[u] - UserQueued(ubs)[u]
      BY <1>5, TotalFollows, Finite
    <2> QED BY <1>5, <2>1
  <1>7. /\ Total(UserShares(ubs)) \in Nat /\ Total(UserQueued(ubs)) \in Nat
        /\ ub.shares \in Nat /\ ubs[u].shares \in Nat
        /\ Queued(ub.q4w) \in Nat /\ Queued(ubs[u].q4w) \in Nat
    BY <1>2, <1>4, <1>5, <1>1, TotalNat, Finite DEF UserBalance
  <1>8. new.q4w \in Nat /\ new.shares \in Nat /\ pool.q4w \in Nat /\ pool.shares \in Nat
    BY DEF PoolBalance
  <1>9. Owned(new, after)
    BY <1>3, <1>6, <1>7, <1>8 DEF Owned
  <1> QED BY <1>9 DEF after

\* The empty pool and its users agree.
LEMMA OwnedAtFirst == Owned(EmptyPool, [u \in Users |-> EmptyUser])
  <1> DEFINE none == [u \in Users |-> EmptyUser]
  <1>1. UserShares(none) = [u \in Users |-> 0] /\ UserQueued(none) = [u \in Users |-> 0]
    BY QueuedNone DEF UserShares, UserQueued, EmptyUser
  <1>2. Total([u \in Users |-> 0]) = 0
    BY TotalZero, Finite
  <1> HIDE DEF none
  <1>3. Owned(EmptyPool, none)
    BY <1>1, <1>2 DEF Owned, EmptyPool
  <1> QED BY <1>3 DEF none

-----------------------------------------------------------------------------
\* What a stream has not given to the index of its pool.
Unstreamed(config, data) ==
    IF data.last_time >= config.expiration THEN 0
    ELSE config.eps * (config.expiration - data.last_time)
Remaining(config, time) ==
    IF config.expiration > time THEN config.eps * (config.expiration - time) ELSE 0

\* An update gives to the unqueued shares no more than the stream emitted since
\* the last one.
LEMMA UpdateCovered ==
    ASSUME NEW c \in BackstopEmissionConfig, NEW d \in BackstopEmissionsData,
           NEW pool \in PoolBalance, pool.q4w <= pool.shares,
           NEW time \in Nat, d.last_time <= time, CanUpdateData(c, d, pool, time),
           NEW new, new = UpdatedData(c, d, pool, time)
    PROVE  /\ new \in BackstopEmissionsData
           /\ d.index <= new.index /\ new.last_time <= time
           /\ (new.index - d.index) * (pool.shares - pool.q4w) + Unstreamed(c, new) * Scalar7
                <= Unstreamed(c, d) * Scalar7
           /\ (new.index - d.index) * (pool.shares - pool.q4w) + Remaining(c, time) * Scalar7
                <= Unstreamed(c, d) * Scalar7
  <1> DEFINE unqueued == pool.shares - pool.q4w
  <1>1. /\ c.eps \in Nat /\ c.expiration \in Nat /\ d.index \in Nat /\ d.last_time \in Nat
        /\ unqueued \in Nat /\ Scalar7 \in Nat \ {0}
    BY BalancesAssumption DEF BackstopEmissionConfig, BackstopEmissionsData, PoolBalance
  <1>2. Unstreamed(c, d) \in Nat /\ Remaining(c, time) \in Nat
    BY <1>1, ProductNat DEF Unstreamed, Remaining
  <1>3. CASE EmissionsCurrent(c, d, pool, time)
    <2>1. new = d
      BY <1>3 DEF UpdatedData
    <2>2. Remaining(c, time) <= Unstreamed(c, d)
      <3>1. CASE c.expiration > time
        <4>1. c.expiration - time <= c.expiration - d.last_time /\ ~ d.last_time >= c.expiration
          BY <1>1, <3>1
        <4>2. c.eps * (c.expiration - time) <= c.eps * (c.expiration - d.last_time)
          BY <1>1, <4>1, ProductGrows
        <4> QED BY <3>1, <4>1, <4>2 DEF Remaining, Unstreamed
      <3> QED BY <1>2, <3>1 DEF Remaining
    <2>3. Remaining(c, time) * Scalar7 <= Unstreamed(c, d) * Scalar7
      BY <1>1, <1>2, <2>2, ProductGrows
    <2>4. (d.index - d.index) * unqueued = 0
      BY <1>1
    <2> HIDE DEF unqueued
    <2>5. Unstreamed(c, d) * Scalar7 \in Nat /\ Remaining(c, time) * Scalar7 \in Nat
      BY <1>1, <1>2, ProductNat
    <2> QED BY <1>1, <2>1, <2>3, <2>4, <2>5 DEF unqueued
  <1>4. CASE ~ EmissionsCurrent(c, d, pool, time)
    <2> DEFINE end == AtMost(time, c.expiration)
               emitted == (end - d.last_time) * c.eps
               gain == DivFloor(emitted, unqueued, Scalar7)
    <2>1. /\ unqueued \in Nat \ {0} /\ d.last_time < c.expiration /\ d.last_time # time
      BY <1>1, <1>4 DEF CanUpdateData, EmissionsCurrent, PoolBalance
    <2>2. end - d.last_time \in Nat /\ end \in Nat
      BY <1>1, <2>1 DEF AtMost
    <2>3. emitted \in Nat
      BY <1>1, <2>2, ProductNat
    <2>4. new = [index |-> d.index + gain, last_time |-> time]
      BY <1>4 DEF UpdatedData
    <2>5. emitted + Remaining(c, time) = Unstreamed(c, d) /\ emitted + Unstreamed(c, new) = Unstreamed(c, d)
      <3>1. CASE time < c.expiration
        <4>1. end = time /\ new.last_time = time
          BY <1>1, <2>4, <3>1 DEF AtMost
        <4>2. emitted = c.eps * (time - d.last_time)
          BY <1>1, <4>1
        <4>3. c.eps * (time - d.last_time) + c.eps * (c.expiration - time)
                = c.eps * (c.expiration - d.last_time)
          BY <1>1
        <4> QED BY <1>1, <2>1, <3>1, <4>1, <4>2, <4>3 DEF Remaining, Unstreamed
      <3>2. CASE ~ time < c.expiration
        <4>1. end = c.expiration /\ new.last_time = time
          BY <1>1, <2>4, <3>2 DEF AtMost
        <4>2. emitted = c.eps * (c.expiration - d.last_time)
          BY <1>1, <4>1
        <4>3. c.eps * (c.expiration - d.last_time) \in Nat
          BY <1>1, <2>1, ProductNat
        <4> QED BY <1>1, <2>1, <3>2, <4>1, <4>2, <4>3 DEF Remaining, Unstreamed
      <3> QED BY <3>1, <3>2
    <2> HIDE DEF emitted, end
    <2>6. gain \in Nat /\ gain * unqueued <= emitted * Scalar7
      BY <1>1, <2>1, <2>3, DivFloorBounds
    <2> HIDE DEF gain, unqueued
    <2>7. new \in BackstopEmissionsData /\ new.index - d.index = gain /\ d.index <= new.index
          /\ new.last_time <= time
      BY <1>1, <2>4, <2>6 DEF BackstopEmissionsData
    <2>8. Unstreamed(c, new) = Remaining(c, time)
      BY <1>2, <2>3, <2>5, <2>4, <1>1 DEF Unstreamed, Remaining
    <2>9. gain * unqueued + Remaining(c, time) * Scalar7 <= Unstreamed(c, d) * Scalar7
      <3>1. emitted * Scalar7 + Remaining(c, time) * Scalar7 = Unstreamed(c, d) * Scalar7
        BY <1>1, <1>2, <2>3, <2>5
      <3>2. /\ gain * unqueued \in Nat /\ emitted * Scalar7 \in Nat
            /\ Remaining(c, time) * Scalar7 \in Nat
        BY <1>1, <1>2, <2>1, <2>3, <2>6, ProductNat
      <3> QED BY <2>6, <3>1, <3>2
    <2> QED BY <2>7, <2>8, <2>9 DEF unqueued
  <1> QED BY <1>3, <1>4

-----------------------------------------------------------------------------
\* What a record is due at an index, before it is rounded, in units of Scalar7.
Due(record, shares, index) == record.accrued * Scalar7 + shares * (index - record.index)
RecordOf(p, u) == IF user_emis[p][u] = None THEN NoRecord ELSE user_emis[p][u]

\* What Accrued rounds down to is covered by what is due.
LEMMA AccruedCovered ==
    ASSUME NEW record \in UserEmissionData, NEW shares \in Nat, NEW index \in Nat,
           record.index <= index
    PROVE  /\ Accrued(record, shares, index) \in Nat /\ Due(record, shares, index) \in Nat
           /\ Accrued(record, shares, index) * Scalar7 <= Due(record, shares, index)
  <1> DEFINE gap == index - record.index
             earned == MulFloor(shares, gap, Scalar7)
  <1>1. /\ record.accrued \in Nat /\ gap \in Nat /\ Scalar7 \in Nat \ {0}
        /\ Accrued(record, shares, index) = record.accrued + earned
        /\ Due(record, shares, index) = record.accrued * Scalar7 + shares * gap
    BY BalancesAssumption DEF UserEmissionData, Accrued, Due
  <1> HIDE DEF gap
  <1>2. earned \in Nat /\ earned * Scalar7 <= shares * gap
    BY <1>1, MulFloorBounds
  <1> HIDE DEF earned
  <1>3. /\ (record.accrued + earned) * Scalar7 = record.accrued * Scalar7 + earned * Scalar7
        /\ record.accrued * Scalar7 \in Nat /\ earned * Scalar7 \in Nat /\ shares * gap \in Nat
    BY <1>1, <1>2, ProductNat
  <1> QED BY <1>1, <1>2, <1>3

\* Shares and tokens of a pool are exchanged at its rate, rounded down.
LEMMA Exchange ==
    ASSUME NEW pool \in PoolBalance, NEW n \in Nat
    PROVE  /\ CanConvertToShares(pool) => ConvertToShares(pool, n) \in Nat
           /\ CanConvertToShares(pool) /\ pool.shares # 0
                => ConvertToShares(pool, n) * pool.tokens <= n * pool.shares
           /\ ConvertToTokens(pool, n) \in Nat
           /\ pool.shares # 0 => ConvertToTokens(pool, n) * pool.shares <= n * pool.tokens
  <1>1. pool.shares \in Nat /\ pool.tokens \in Nat
    BY DEF PoolBalance
  <1>2. CASE pool.shares = 0
    BY <1>2 DEF ConvertToShares, ConvertToTokens
  <1>3. CASE pool.shares # 0
    <2>1. /\ ConvertToShares(pool, n) = MulFloor(n, pool.shares, pool.tokens)
          /\ ConvertToTokens(pool, n) = MulFloor(n, pool.tokens, pool.shares)
          /\ CanConvertToShares(pool) => pool.tokens # 0
      BY <1>3 DEF ConvertToShares, ConvertToTokens, CanConvertToShares
    <2>2. CanConvertToShares(pool) =>
            /\ MulFloor(n, pool.shares, pool.tokens) \in Nat
            /\ MulFloor(n, pool.shares, pool.tokens) * pool.tokens <= n * pool.shares
      BY <1>1, <2>1, MulFloorBounds
    <2>3. /\ MulFloor(n, pool.tokens, pool.shares) \in Nat
          /\ MulFloor(n, pool.tokens, pool.shares) * pool.shares <= n * pool.tokens
      BY <1>1, <1>3, MulFloorBounds
    <2> QED BY <2>1, <2>2, <2>3
  <1> QED BY <1>2, <1>3

-----------------------------------------------------------------------------
Indexed(p) ==
    /\ emis_config[p] = None <=> emis_data[p] = None
    /\ emis_data[p] # None => emis_data[p].last_time <= now
    /\ \A u \in Users : user_emis[p][u] # None =>
          emis_data[p] # None /\ user_emis[p][u].index <= emis_data[p].index
AllOwned == \A p \in Pools : Owned(pool_balance[p], user_balance[p])
AllIndexed == \A p \in Pools : Indexed(p)
Clocks == last_distribution <= emitter_last /\ emitter_last <= now

\* The books of the backstop: amounts are natural, pools own what their users do,
\* no record is ahead of its pool's index, no time ahead of the clock.
Books == TypeOK /\ AllOwned /\ AllIndexed /\ Clocks

\* A withdrawal queue is ordered, and ends at most a lock from now.
Ordered(q, time) ==
    /\ Len(q) <= MaxQ4WSize
    /\ \A i \in 1..Len(q) : q[i].exp <= time + Q4WLockTime
    /\ \A i, j \in 1..Len(q) : i < j => q[i].exp <= q[j].exp

\* What the books say of one pool and of its users.
LEMMA PoolTyped ==
    ASSUME Books, NEW p \in Pools
    PROVE  /\ pool_balance[p] \in PoolBalance
           /\ user_balance[p] \in [Users -> UserBalance]
           /\ Owned(pool_balance[p], user_balance[p])
           /\ pool_balance[p].shares \in Nat /\ pool_balance[p].q4w \in Nat
           /\ pool_balance[p].tokens \in Nat
           /\ pool_balance[p].q4w <= pool_balance[p].shares
           /\ \A u \in Users : /\ user_balance[p][u] \in UserBalance
                               /\ user_balance[p][u].shares \in Nat
                               /\ user_balance[p][u].q4w \in Seq(Q4W)
                               /\ Queued(user_balance[p][u].q4w) \in Nat
  <1>1. /\ pool_balance[p] \in PoolBalance /\ user_balance[p] \in [Users -> UserBalance]
        /\ Owned(pool_balance[p], user_balance[p])
    BY DEF Books, TypeOK, AllOwned
  <1>2. \A u \in Users : /\ user_balance[p][u].q4w \in Seq(Q4W)
                         /\ user_balance[p][u] \in UserBalance
    BY <1>1 DEF UserBalance
  <1> QED BY <1>1, <1>2, OwnedBounds, QueuedNat

\* The index of a pool at this time, and what a user of it has accrued.
LEMMA CurrentTyped ==
    ASSUME Books, NEW p \in Pools, emis_config[p] # None, CanUpdateEmissions(p)
    PROVE  /\ emis_config[p] \in BackstopEmissionConfig
           /\ emis_data[p] \in BackstopEmissionsData
           /\ CurrentData(p) \in BackstopEmissionsData
           /\ emis_data[p].index \in Nat /\ CurrentData(p).index \in Nat
           /\ emis_data[p].index <= CurrentData(p).index
           /\ CurrentData(p).last_time <= now
           /\ \A u \in Users :
                 /\ RecordOf(p, u) \in UserEmissionData
                 /\ RecordOf(p, u).index <= emis_data[p].index
                 /\ RecordOf(p, u).index <= CurrentData(p).index
                 /\ AccruedTo(p, u) \in Nat
                 /\ AccruedTo(p, u) * Scalar7
                      <= Due(RecordOf(p, u), user_balance[p][u].shares, CurrentData(p).index)
  <1>1. emis_config[p] \in BackstopEmissionConfig /\ emis_data[p] \in BackstopEmissionsData
    BY DEF Books, TypeOK, AllIndexed, Indexed
  <1>2. /\ CurrentData(p) = UpdatedData(emis_config[p], emis_data[p], pool_balance[p], now)
        /\ CanUpdateData(emis_config[p], emis_data[p], pool_balance[p], now)
        /\ emis_data[p].last_time <= now /\ now \in Nat
    BY DEF Books, TypeOK, AllIndexed, Indexed, CurrentData, CanUpdateEmissions
  <1>3. /\ CurrentData(p) \in BackstopEmissionsData
        /\ emis_data[p].index <= CurrentData(p).index /\ CurrentData(p).last_time <= now
    BY <1>1, <1>2, PoolTyped, UpdateCovered
  <1>4. emis_data[p].index \in Nat /\ CurrentData(p).index \in Nat
    BY <1>1, <1>3 DEF BackstopEmissionsData
  <1>5. ASSUME NEW u \in Users
        PROVE  /\ RecordOf(p, u) \in UserEmissionData
               /\ RecordOf(p, u).index <= emis_data[p].index
               /\ RecordOf(p, u).index <= CurrentData(p).index
               /\ AccruedTo(p, u) \in Nat
               /\ AccruedTo(p, u) * Scalar7
                    <= Due(RecordOf(p, u), user_balance[p][u].shares, CurrentData(p).index)
    <2>1. RecordOf(p, u) \in UserEmissionData /\ RecordOf(p, u).index <= emis_data[p].index
      <3>1. CASE user_emis[p][u] = None
        BY <1>4, <3>1 DEF RecordOf, NoRecord, UserEmissionData
      <3>2. CASE user_emis[p][u] # None
        BY <3>2 DEF RecordOf, Books, TypeOK, AllIndexed, Indexed
      <3> QED BY <3>1, <3>2
    <2>2. RecordOf(p, u).index \in Nat
      BY <2>1 DEF UserEmissionData
    <2>3. RecordOf(p, u).index <= CurrentData(p).index
      BY <1>3, <1>4, <2>1, <2>2
    <2>4. AccruedTo(p, u) = Accrued(RecordOf(p, u), user_balance[p][u].shares, CurrentData(p).index)
      BY DEF AccruedTo, RecordOf
    <2>5. user_balance[p][u].shares \in Nat
      BY PoolTyped
    <2>6. /\ Accrued(RecordOf(p, u), user_balance[p][u].shares, CurrentData(p).index) \in Nat
          /\ Accrued(RecordOf(p, u), user_balance[p][u].shares, CurrentData(p).index) * Scalar7
               <= Due(RecordOf(p, u), user_balance[p][u].shares, CurrentData(p).index)
      BY <1>4, <2>1, <2>3, <2>5, AccruedCovered
    <2> QED BY <2>1, <2>3, <2>4, <2>6
  <1> QED BY <1>1, <1>3, <1>4, <1>5

\* What a dequeued or withdrawn amount leaves of a user's queue.
LEMMA QueueTaken ==
    ASSUME NEW q \in Seq(Q4W), NEW amount \in Nat, NEW time \in Nat,
           NEW result, result = Dequeue(q, amount, time), result.left = 0
    PROVE  /\ result.kept \in Seq(Q4W)
           /\ Queued(result.kept) = Queued(q) - amount
           /\ \A t \in Nat : Ordered(q, t) => Ordered(result.kept, t)
  <1>1. Taken(result, q, Len(q), amount) /\ QueuedIn(q, Len(q)) = Queued(q)
    BY Dequeued
  <1>2. result.kept \in Seq(Q4W) /\ Len(result.kept) <= Len(q)
    BY <1>1 DEF Taken, Progress
  <1>3. Queued(result.kept) \in Nat /\ Queued(q) \in Nat
    BY <1>2, QueuedNat
  <1>4. Queued(q) = Queued(result.kept) + amount - 0
    BY <1>1 DEF Taken
  <1>5. ASSUME NEW t \in Nat, Ordered(q, t) PROVE Ordered(result.kept, t)
    <2> DEFINE kept == result.kept
               d == Len(q) - Len(kept)
    <2>1. /\ Len(q) \in Nat /\ Len(kept) \in Nat /\ d \in Nat /\ MaxQ4WSize \in Nat
          /\ \A i \in 1..Len(kept) : d + i \in 1..Len(q)
          /\ \A i, j \in 1..Len(kept) : i < j => d + i < d + j
      <3>1. Len(q) \in Nat /\ Len(kept) \in Nat /\ Len(kept) <= Len(q)
        BY <1>2, Entries
      <3> HIDE DEF kept
      <3> QED BY <3>1, BalancesAssumption
    <2>2. \A i \in 1..Len(kept) : kept[i].exp = q[d + i].exp
      BY <1>1 DEF Taken
    <2> HIDE DEF kept, d
    <2>3. Len(kept) <= MaxQ4WSize
      BY <1>2, <1>5, <2>1 DEF Ordered, kept
    <2>4. \A i \in 1..Len(kept) : kept[i].exp <= t + Q4WLockTime
      BY <1>5, <2>1, <2>2 DEF Ordered
    <2>5. ASSUME NEW i \in 1..Len(kept), NEW j \in 1..Len(kept), i < j
          PROVE  kept[i].exp <= kept[j].exp
      <3>1. d + i \in 1..Len(q) /\ d + j \in 1..Len(q) /\ d + i < d + j
        BY <2>1, <2>5
      <3>2. q[d + i].exp <= q[d + j].exp
        BY <1>5, <3>1 DEF Ordered
      <3> QED BY <2>2, <3>2
    <2>6. Ordered(kept, t)
      BY <2>3, <2>4, <2>5 DEF Ordered
    <2> QED BY <2>6 DEF kept
  <1> QED BY <1>2, <1>3, <1>4, <1>5

\* The types of the funds and of the clock.
LEMMA WalletTyped ==
    ASSUME Books
    PROVE  /\ wallet \in [Users -> Nat] /\ held \in Nat /\ now \in Nat
           /\ user_balance \in [Pools -> [Users -> UserBalance]]
           /\ pool_balance \in [Pools -> PoolBalance]
  BY DEF Books, TypeOK

\* The fields a deposit or withdrawal leaves in a pool's balance.
LEMMA PoolChanges ==
    ASSUME NEW pool \in PoolBalance, NEW tokens \in Nat, NEW shares \in Nat
    PROVE  /\ DepositInto(pool, tokens, shares) \in PoolBalance
           /\ DepositInto(pool, tokens, shares).shares = pool.shares + shares
           /\ DepositInto(pool, tokens, shares).tokens = pool.tokens + tokens
           /\ DepositInto(pool, tokens, shares).q4w = pool.q4w
           /\ CanWithdraw(pool, tokens, shares) =>
                /\ WithdrawFrom(pool, tokens, shares) \in PoolBalance
                /\ WithdrawFrom(pool, tokens, shares).shares = pool.shares - shares
                /\ WithdrawFrom(pool, tokens, shares).tokens = pool.tokens - tokens
                /\ WithdrawFrom(pool, tokens, shares).q4w = pool.q4w - shares
  <1>1. /\ pool.shares \in Nat /\ pool.tokens \in Nat /\ pool.q4w \in Nat
        /\ pool = [shares |-> pool.shares, tokens |-> pool.tokens, q4w |-> pool.q4w]
    BY DEF PoolBalance
  <1>2. DepositInto(pool, tokens, shares)
          = [shares |-> pool.shares + shares, tokens |-> pool.tokens + tokens, q4w |-> pool.q4w]
    BY DEF DepositInto
  <1>3. WithdrawFrom(pool, tokens, shares)
          = [shares |-> pool.shares - shares, tokens |-> pool.tokens - tokens,
             q4w |-> pool.q4w - shares]
    BY DEF WithdrawFrom
  <1>4. pool.shares + shares \in Nat /\ pool.tokens + tokens \in Nat
    BY <1>1
  <1>5. CanWithdraw(pool, tokens, shares) =>
          /\ pool.shares - shares \in Nat /\ pool.tokens - tokens \in Nat
          /\ pool.q4w - shares \in Nat
    BY <1>1 DEF CanWithdraw
  <1> QED BY <1>1, <1>2, <1>3, <1>4, <1>5 DEF PoolBalance

\* The fields a change leaves in a user's balance.
LEMMA UserChanges ==
    ASSUME NEW ub \in UserBalance, NEW n \in Nat, NEW q \in Seq(Q4W)
    PROVE  /\ ub.shares \in Nat /\ ub.q4w \in Seq(Q4W)
           /\ [shares |-> n, q4w |-> q] \in UserBalance
           /\ [ub EXCEPT !.shares = n] = [shares |-> n, q4w |-> ub.q4w]
           /\ [ub EXCEPT !.shares = n] \in UserBalance
           /\ [ub EXCEPT !.q4w = q] = [shares |-> ub.shares, q4w |-> q]
           /\ [ub EXCEPT !.q4w = q] \in UserBalance
  BY DEF UserBalance

-----------------------------------------------------------------------------
\* A pool and one of its users gain and lose shares and queued shares together.
Together(old, new, before, after) ==
    /\ new \in PoolBalance /\ after \in UserBalance
    /\ new.q4w - old.q4w = Queued(after.q4w) - Queued(before.q4w)
    /\ new.shares - old.shares = new.q4w - old.q4w + after.shares - before.shares

\* The fields of a user's balance.
LEMMA UserTyped ==
    ASSUME NEW ub \in UserBalance
    PROVE  ub.shares \in Nat /\ ub.q4w \in Seq(Q4W) /\ Queued(ub.q4w) \in Nat
  <1>1. ub.shares \in Nat /\ ub.q4w \in Seq(Q4W)
    BY DEF UserBalance
  <1> QED BY <1>1, QueuedNat

\* deposit and add_shares change pool and user together.
LEMMA DepositTogether ==
    ASSUME NEW old \in PoolBalance, NEW before \in UserBalance, NEW tokens \in Nat, NEW n \in Nat
    PROVE  Together(old, DepositInto(old, tokens, n), before, [before EXCEPT !.shares = @ + n])
  <1> DEFINE new == DepositInto(old, tokens, n)
             after == [before EXCEPT !.shares = @ + n]
  <1>1. before.shares \in Nat /\ before.q4w \in Seq(Q4W) /\ Queued(before.q4w) \in Nat
    BY UserTyped
  <1>2. new \in PoolBalance /\ new.shares = old.shares + n /\ new.q4w = old.q4w
    BY PoolChanges
  <1>3. after \in UserBalance /\ after.shares = before.shares + n /\ after.q4w = before.q4w
    <2>1. after = [shares |-> before.shares + n, q4w |-> before.q4w] /\ before.shares + n \in Nat
      BY <1>1 DEF UserBalance
    <2> HIDE DEF after
    <2> QED BY <1>1, <2>1, UserChanges
  <1>4. old.shares \in Nat /\ old.q4w \in Nat
    BY DEF PoolBalance
  <1> HIDE DEF new, after
  <1>5. Together(old, new, before, after)
    BY <1>1, <1>2, <1>3, <1>4 DEF Together
  <1> QED BY <1>5 DEF new, after

\* withdraw and dequeue_shares_for_withdrawal change pool and user together.
LEMMA WithdrawTogether ==
    ASSUME NEW old \in PoolBalance, NEW before \in UserBalance, NEW tokens \in Nat, NEW n \in Nat,
           CanWithdraw(old, tokens, n), NEW q \in Seq(Q4W), Queued(q) = Queued(before.q4w) - n
    PROVE  Together(old, WithdrawFrom(old, tokens, n), before, [before EXCEPT !.q4w = q])
  <1> DEFINE new == WithdrawFrom(old, tokens, n)
             after == [before EXCEPT !.q4w = q]
  <1>1. before.shares \in Nat /\ Queued(before.q4w) \in Nat
    BY UserTyped
  <1>2. new \in PoolBalance /\ new.shares = old.shares - n /\ new.q4w = old.q4w - n
    BY PoolChanges
  <1>3. after \in UserBalance /\ after.shares = before.shares /\ after.q4w = q
    BY <1>1 DEF UserBalance
  <1>4. old.shares \in Nat /\ old.q4w \in Nat
    BY DEF PoolBalance
  <1> HIDE DEF new, after
  <1>5. Together(old, new, before, after)
    <2>1. new.q4w - old.q4w = 0 - n /\ new.shares - old.shares = 0 - n
      BY <1>2, <1>4
    <2>2. Queued(after.q4w) - Queued(before.q4w) = 0 - n /\ after.shares = before.shares
      BY <1>1, <1>3
    <2>3. 0 - n = 0 - n + before.shares - before.shares
      BY <1>1
    <2> QED BY <1>2, <1>3, <2>1, <2>2, <2>3 DEF Together
  <1> QED BY <1>5 DEF new, after

\* queue_for_withdrawal and queue_shares_for_withdrawal change pool and user
\* together, and the new entry is the last to expire.
LEMMA QueueTogether ==
    ASSUME NEW old \in PoolBalance, NEW before \in UserBalance, NEW n \in Nat,
           NEW time \in Nat, CanQueueShares(before, n)
    PROVE  /\ Together(old, [old EXCEPT !.q4w = @ + n], before, QueueShares(before, n, time))
           /\ Ordered(before.q4w, time) => Ordered(QueueShares(before, n, time).q4w, time)
           /\ QueueShares(before, n, time).shares <= before.shares
  <1> DEFINE new == [old EXCEPT !.q4w = @ + n]
             after == QueueShares(before, n, time)
             entry == [amount |-> n, exp |-> time + Q4WLockTime]
             q == before.q4w
  <1>1. before.shares \in Nat /\ q \in Seq(Q4W) /\ Queued(q) \in Nat
    BY UserTyped
  <1>2. old.shares \in Nat /\ old.q4w \in Nat /\ old.tokens \in Nat
        /\ new = [shares |-> old.shares, tokens |-> old.tokens, q4w |-> old.q4w + n]
    BY DEF PoolBalance
  <1>3. new \in PoolBalance /\ new.shares = old.shares /\ new.q4w = old.q4w + n
    BY <1>2 DEF PoolBalance
  <1>4. entry \in Q4W /\ entry.amount = n /\ entry.exp = time + Q4WLockTime
    BY BalancesAssumption DEF Q4W
  <1>5. after = [shares |-> before.shares - n, q4w |-> Append(q, entry)]
    BY DEF QueueShares
  <1>6. n <= before.shares /\ Len(q) < MaxQ4WSize
    BY DEF CanQueueShares
  <1>7. before.shares - n \in Nat
    BY <1>1, <1>6
  <1> HIDE DEF new, after, entry, q
  <1>8. /\ Append(q, entry) \in Seq(Q4W) /\ Len(Append(q, entry)) = Len(q) + 1
        /\ \A i \in 1..Len(q) : Append(q, entry)[i] = q[i]
        /\ Append(q, entry)[Len(q) + 1] = entry
    BY <1>1, <1>4, AppendProperties
  <1>9. Queued(Append(q, entry)) = Queued(q) + n
    BY <1>1, <1>4, QueuedAppend
  <1>10. after \in UserBalance /\ after.shares = before.shares - n /\ after.q4w = Append(q, entry)
    BY <1>5, <1>7, <1>8 DEF UserBalance
  <1>11. Together(old, new, before, after)
    <2>1. new.q4w - old.q4w = n /\ new.shares - old.shares = 0
      BY <1>2, <1>3
    <2>2. Queued(after.q4w) - Queued(before.q4w) = n
      BY <1>1, <1>9, <1>10 DEF q
    <2>3. n + after.shares - before.shares = 0
      BY <1>1, <1>10
    <2> QED BY <1>3, <1>10, <2>1, <2>2, <2>3 DEF Together
  <1>12. ASSUME Ordered(q, time) PROVE Ordered(Append(q, entry), time)
    <2>1. Len(q) \in Nat /\ MaxQ4WSize \in Nat /\ Q4WLockTime \in Nat
      BY <1>1, Entries, BalancesAssumption
    <2>2. Len(Append(q, entry)) <= MaxQ4WSize
      BY <1>6, <1>8, <2>1
    <2>3. \A i \in 1..(Len(q) + 1) :
             \/ i \in 1..Len(q) /\ Append(q, entry)[i] = q[i]
             \/ i = Len(q) + 1 /\ Append(q, entry)[i] = entry
      <3>1. \A i \in 1..(Len(q) + 1) : i \in 1..Len(q) \/ i = Len(q) + 1
        BY <2>1
      <3> QED BY <1>8, <3>1
    <2>4. \A i \in 1..Len(q) : q[i].exp <= time + Q4WLockTime
      BY <1>12 DEF Ordered
    <2>5. \A i \in 1..(Len(q) + 1) : Append(q, entry)[i].exp <= time + Q4WLockTime
      BY <1>4, <2>1, <2>3, <2>4
    <2>6. ASSUME NEW i \in 1..(Len(q) + 1), NEW j \in 1..(Len(q) + 1), i < j
          PROVE  Append(q, entry)[i].exp <= Append(q, entry)[j].exp
      <3>1. i \in 1..Len(q) /\ Append(q, entry)[i] = q[i]
        BY <2>1, <2>3, <2>6
      <3>2. CASE j \in 1..Len(q)
        BY <1>8, <1>12, <2>6, <3>1, <3>2 DEF Ordered
      <3>3. CASE j = Len(q) + 1
        BY <1>4, <1>8, <2>4, <3>1, <3>3
      <3> QED BY <2>3, <3>2, <3>3
    <2> QED BY <1>8, <2>2, <2>5, <2>6 DEF Ordered
  <1>13. after.shares <= before.shares
    BY <1>1, <1>10
  <1> QED BY <1>10, <1>11, <1>12, <1>13 DEF new, after, q

\* dequeue_q4w and the return of the shares change pool and user together.
LEMMA DequeueTogether ==
    ASSUME NEW old \in PoolBalance, NEW before \in UserBalance, NEW n \in Nat, n <= old.q4w,
           NEW q \in Seq(Q4W), Queued(q) = Queued(before.q4w) - n
    PROVE  Together(old, [old EXCEPT !.q4w = @ - n],
                    before, [shares |-> before.shares + n, q4w |-> q])
  <1> DEFINE new == [old EXCEPT !.q4w = @ - n]
             after == [shares |-> before.shares + n, q4w |-> q]
  <1>1. before.shares \in Nat /\ Queued(before.q4w) \in Nat
    BY UserTyped
  <1>2. old.shares \in Nat /\ old.q4w \in Nat /\ old.tokens \in Nat
        /\ new = [shares |-> old.shares, tokens |-> old.tokens, q4w |-> old.q4w - n]
    BY DEF PoolBalance
  <1>3. new \in PoolBalance /\ new.shares = old.shares /\ new.q4w = old.q4w - n
    BY <1>2 DEF PoolBalance
  <1>4. after \in UserBalance /\ after.shares = before.shares + n /\ after.q4w = q
    BY <1>1 DEF UserBalance
  <1> HIDE DEF new, after
  <1>5. Together(old, new, before, after)
    BY <1>1, <1>2, <1>3, <1>4 DEF Together
  <1> QED BY <1>5 DEF new, after
-----------------------------------------------------------------------------
\* What a call that moves funds of one pool and one user does to them.
FundStep(p, u, pool, ub) ==
    /\ pool_balance' = [pool_balance EXCEPT ![p] = pool]
    /\ user_balance' = [user_balance EXCEPT ![p] = [@ EXCEPT ![u] = ub]]
    /\ Together(pool_balance[p], pool, user_balance[p][u], ub)
    /\ held' \in Nat /\ held' - held = pool.tokens - pool_balance[p].tokens
    /\ wallet' \in [Users -> Nat]
    /\ Ordered(user_balance[p][u].q4w, now) => Ordered(ub.q4w, now)
    /\ pool_balance[p] = EmptyPool => p \in deployed \/ pool = EmptyPool

\* A deposit changes the funds of one pool and one user.
LEMMA DepositStep ==
    ASSUME Books, NEW p \in Pools, NEW u \in Users, NEW amount \in Nat, Deposit(u, p, amount)
    PROVE  \E pool, ub : FundStep(p, u, pool, ub)
  <1> DEFINE old == pool_balance[p]
             before == user_balance[p][u]
             to_mint == ConvertToShares(old, amount)
             pool == DepositInto(old, amount, to_mint)
             ub == [before EXCEPT !.shares = @ + to_mint]
  <1>1. old \in PoolBalance /\ old.tokens \in Nat /\ before \in UserBalance
    BY PoolTyped
  <1>2. /\ CanConvertToShares(old) /\ amount <= wallet[u] /\ held' = held + amount
        /\ pool_balance' = [pool_balance EXCEPT ![p] = pool]
        /\ user_balance' = [user_balance EXCEPT ![p] = [@ EXCEPT ![u] = ub]]
        /\ wallet' = [wallet EXCEPT ![u] = @ - amount]
        /\ old.shares = 0 => p \in deployed
    BY DEF Deposit, IsFromPoolFactory
  <1> HIDE DEF old, before
  <1>3. to_mint \in Nat
    BY <1>1, <1>2, Exchange
  <1> HIDE DEF to_mint
  <1>4. Together(old, pool, before, ub)
    BY <1>1, <1>3, DepositTogether
  <1>5. pool.tokens = old.tokens + amount /\ ub.q4w = before.q4w
    BY <1>1, <1>3 DEF DepositInto, UserBalance
  <1>6. wallet[u] \in Nat /\ held \in Nat /\ wallet \in [Users -> Nat]
    BY WalletTyped
  <1>7. wallet' \in [Users -> Nat] /\ held' \in Nat
    BY <1>2, <1>6
  <1>8. old = EmptyPool => p \in deployed
    BY <1>2 DEF EmptyPool
  <1> HIDE DEF pool, ub
  <1>9. held' - held = pool.tokens - old.tokens
    BY <1>1, <1>2, <1>5, <1>6
  <1>10. FundStep(p, u, pool, ub)
    BY <1>2, <1>4, <1>5, <1>7, <1>8, <1>9 DEF FundStep, old, before
  <1> QED BY <1>10

\* So does queueing a withdrawal.
LEMMA QueueStep ==
    ASSUME Books, NEW p \in Pools, NEW u \in Users, NEW amount \in Nat,
           QueueWithdrawal(u, p, amount)
    PROVE  \E pool, ub : FundStep(p, u, pool, ub)
  <1> DEFINE old == pool_balance[p]
             before == user_balance[p][u]
             pool == [old EXCEPT !.q4w = @ + amount]
             ub == QueueShares(before, amount, now)
  <1>1. old \in PoolBalance /\ before \in UserBalance /\ old.shares \in Nat /\ old.q4w \in Nat
    BY PoolTyped
  <1>2. /\ CanQueueShares(before, amount) /\ held' = held /\ wallet' = wallet
        /\ pool_balance' = [pool_balance EXCEPT ![p] = pool]
        /\ user_balance' = [user_balance EXCEPT ![p] = [@ EXCEPT ![u] = ub]]
    BY DEF QueueWithdrawal
  <1>3. before.shares <= old.shares - old.q4w /\ before.shares \in Nat
    BY PoolTyped, OwnedBounds
  <1>4. wallet \in [Users -> Nat] /\ held \in Nat /\ now \in Nat
    BY WalletTyped
  <1> HIDE DEF old, before
  <1>5. Together(old, pool, before, ub) /\ (Ordered(before.q4w, now) => Ordered(ub.q4w, now))
    BY <1>1, <1>2, <1>4, QueueTogether
  <1>6. pool.tokens = old.tokens /\ old.tokens \in Nat
    BY <1>1 DEF PoolBalance
  <1>7. old = EmptyPool => pool = EmptyPool
    <2>1. old = EmptyPool => amount = 0
      BY <1>2, <1>3 DEF EmptyPool, CanQueueShares
    <2> QED BY <2>1 DEF EmptyPool
  <1> HIDE DEF pool, ub
  <1>8. held' - held = pool.tokens - old.tokens /\ held' \in Nat
    BY <1>2, <1>4, <1>6
  <1>9. FundStep(p, u, pool, ub)
    BY <1>2, <1>4, <1>5, <1>7, <1>8 DEF FundStep, old, before
  <1> QED BY <1>9

\* So does dequeueing one.
LEMMA DequeueStep ==
    ASSUME Books, NEW p \in Pools, NEW u \in Users, NEW amount \in Nat,
           DequeueWithdrawal(u, p, amount)
    PROVE  \E pool, ub : FundStep(p, u, pool, ub)
  <1> DEFINE old == pool_balance[p]
             before == user_balance[p][u]
             result == Dequeue(before.q4w, amount, now)
             pool == [old EXCEPT !.q4w = @ - amount]
             ub == [shares |-> before.shares + amount, q4w |-> result.kept]
  <1>1. old \in PoolBalance /\ before \in UserBalance /\ before.q4w \in Seq(Q4W)
    BY PoolTyped
  <1>2. /\ result.left = 0 /\ amount <= old.q4w /\ held' = held /\ wallet' = wallet
        /\ pool_balance' = [pool_balance EXCEPT ![p] = pool]
        /\ user_balance' = [user_balance EXCEPT ![p] = [@ EXCEPT ![u] = ub]]
    BY DEF DequeueWithdrawal
  <1>3. wallet \in [Users -> Nat] /\ held \in Nat /\ now \in Nat
    BY WalletTyped
  <1> HIDE DEF old, before, result
  <1>4. /\ result.kept \in Seq(Q4W) /\ Queued(result.kept) = Queued(before.q4w) - amount
        /\ Ordered(before.q4w, now) => Ordered(result.kept, now)
    BY <1>1, <1>2, <1>3, QueueTaken DEF result
  <1>5. Together(old, pool, before, ub)
    BY <1>1, <1>2, <1>4, DequeueTogether
  <1>6. pool.tokens = old.tokens /\ old.tokens \in Nat /\ ub.q4w = result.kept
    BY <1>1 DEF PoolBalance
  <1>7. old = EmptyPool => pool = EmptyPool
    <2>1. old = EmptyPool => amount = 0
      BY <1>2 DEF EmptyPool
    <2> QED BY <2>1 DEF EmptyPool
  <1> HIDE DEF pool, ub
  <1>8. held' - held = pool.tokens - old.tokens /\ held' \in Nat
    BY <1>2, <1>3, <1>6
  <1>9. FundStep(p, u, pool, ub)
    BY <1>2, <1>3, <1>4, <1>5, <1>6, <1>7, <1>8 DEF FundStep, old, before
  <1> QED BY <1>9

\* So does a withdrawal.
LEMMA WithdrawStep ==
    ASSUME Books, NEW p \in Pools, NEW u \in Users, NEW amount \in Nat, Withdraw(u, p, amount)
    PROVE  \E pool, ub : FundStep(p, u, pool, ub)
  <1> DEFINE old == pool_balance[p]
             before == user_balance[p][u]
             result == Dequeue(before.q4w, amount, now)
             to_return == ConvertToTokens(old, amount)
             pool == WithdrawFrom(old, to_return, amount)
             ub == [before EXCEPT !.q4w = result.kept]
  <1>1. /\ old \in PoolBalance /\ old.tokens \in Nat /\ before \in UserBalance
        /\ before.q4w \in Seq(Q4W)
    BY PoolTyped
  <1>2. /\ result.left = 0 /\ CanWithdraw(old, to_return, amount)
        /\ to_return <= held /\ held' = held - to_return
        /\ wallet' = [wallet EXCEPT ![u] = @ + to_return]
        /\ pool_balance' = [pool_balance EXCEPT ![p] = pool]
        /\ user_balance' = [user_balance EXCEPT ![p] = [@ EXCEPT ![u] = ub]]
    BY DEF Withdraw
  <1>3. wallet \in [Users -> Nat] /\ wallet[u] \in Nat /\ held \in Nat /\ now \in Nat
    BY WalletTyped
  <1> HIDE DEF old, before, result
  <1>4. to_return \in Nat
    BY <1>1, Exchange
  <1> HIDE DEF to_return
  <1>5. /\ result.kept \in Seq(Q4W) /\ Queued(result.kept) = Queued(before.q4w) - amount
        /\ Ordered(before.q4w, now) => Ordered(result.kept, now)
    BY <1>1, <1>2, <1>3, QueueTaken DEF result
  <1>6. Together(old, pool, before, ub)
    BY <1>1, <1>2, <1>4, <1>5, WithdrawTogether
  <1>7. pool.tokens = old.tokens - to_return /\ ub.q4w = result.kept
    BY <1>1, <1>5 DEF WithdrawFrom, UserBalance
  <1>8. old = EmptyPool => pool = EmptyPool
    <2>1. old = EmptyPool => amount = 0 /\ to_return = 0
      BY <1>2, <1>4 DEF EmptyPool, CanWithdraw
    <2> QED BY <2>1 DEF EmptyPool, WithdrawFrom
  <1>9. wallet' \in [Users -> Nat] /\ held' \in Nat
    BY <1>2, <1>3, <1>4
  <1> HIDE DEF pool, ub
  <1>10. held' - held = pool.tokens - old.tokens
    BY <1>1, <1>2, <1>3, <1>4, <1>7
  <1>11. FundStep(p, u, pool, ub)
    BY <1>2, <1>5, <1>6, <1>7, <1>8, <1>9, <1>10 DEF FundStep, old, before
  <1> QED BY <1>11

\* So does a draw, whoever receives it.
LEMMA DrawStep ==
    ASSUME Books, NEW p \in Pools, NEW u \in Users, NEW amount \in Nat, Draw(p, amount, u)
    PROVE  \E pool, ub : FundStep(p, u, pool, ub)
  <1> DEFINE old == pool_balance[p]
             before == user_balance[p][u]
             pool == WithdrawFrom(old, amount, 0)
  <1>1. old \in PoolBalance /\ old.tokens \in Nat /\ before \in UserBalance
    BY PoolTyped
  <1>2. /\ CanWithdraw(old, amount, 0) /\ amount <= held /\ held' = held - amount
        /\ wallet' = [wallet EXCEPT ![u] = @ + amount]
        /\ pool_balance' = [pool_balance EXCEPT ![p] = pool] /\ user_balance' = user_balance
    BY DEF Draw
  <1>3. wallet \in [Users -> Nat] /\ wallet[u] \in Nat /\ held \in Nat
    BY WalletTyped
  <1>4. user_balance' = [user_balance EXCEPT ![p] = [@ EXCEPT ![u] = before]]
    BY <1>2, WalletTyped
  <1> HIDE DEF old, before
  <1>5. Together(old, pool, before, before)
    <2>1. /\ pool \in PoolBalance /\ pool.shares = old.shares - 0 /\ pool.q4w = old.q4w - 0
      BY <1>1, <1>2, PoolChanges
    <2>2. before.shares \in Nat /\ Queued(before.q4w) \in Nat
      BY <1>1, UserTyped
    <2>3. old.shares \in Nat /\ old.q4w \in Nat
      BY <1>1 DEF PoolBalance
    <2> HIDE DEF pool
    <2>4. /\ pool.shares - old.shares = 0 /\ pool.q4w - old.q4w = 0
          /\ Queued(before.q4w) - Queued(before.q4w) = 0 /\ 0 + before.shares - before.shares = 0
      BY <2>1, <2>2, <2>3
    <2> QED BY <1>1, <2>1, <2>4 DEF Together
  <1>6. pool.tokens = old.tokens - amount
    BY DEF WithdrawFrom
  <1>7. old = EmptyPool => pool = EmptyPool
    <2>1. old = EmptyPool => amount = 0
      BY <1>2 DEF EmptyPool, CanWithdraw
    <2> QED BY <2>1 DEF EmptyPool, WithdrawFrom
  <1>8. wallet' \in [Users -> Nat] /\ held' \in Nat
    BY <1>2, <1>3
  <1> HIDE DEF pool
  <1>9. held' - held = pool.tokens - old.tokens
    BY <1>1, <1>2, <1>3, <1>6
  <1>10. FundStep(p, u, pool, before)
    BY <1>2, <1>4, <1>5, <1>7, <1>8, <1>9 DEF FundStep, old, before
  <1> QED BY <1>10

\* So does a donation.
LEMMA DonateStep ==
    ASSUME Books, NEW p \in Pools, NEW u \in Users, NEW amount \in Nat, Donate(u, p, amount)
    PROVE  \E pool, ub : FundStep(p, u, pool, ub)
  <1> DEFINE old == pool_balance[p]
             before == user_balance[p][u]
             pool == DepositInto(old, amount, 0)
             ub == [before EXCEPT !.shares = @ + 0]
  <1>1. old \in PoolBalance /\ old.tokens \in Nat /\ before \in UserBalance
    BY PoolTyped
  <1>2. /\ amount <= wallet[u] /\ held' = held + amount
        /\ wallet' = [wallet EXCEPT ![u] = @ - amount]
        /\ pool_balance' = [pool_balance EXCEPT ![p] = pool] /\ user_balance' = user_balance
        /\ old.shares = 0 => p \in deployed
    BY DEF Donate, IsFromPoolFactory
  <1>3. wallet \in [Users -> Nat] /\ wallet[u] \in Nat /\ held \in Nat
    BY WalletTyped
  <1>4. user_balance' = [user_balance EXCEPT ![p] = [@ EXCEPT ![u] = before]]
    BY <1>2, WalletTyped
  <1> HIDE DEF old, before
  <1>5. ub = before
    BY <1>1 DEF UserBalance
  <1>6. Together(old, pool, before, before)
    <2>1. Together(old, pool, before, ub)
      BY <1>1, DepositTogether
    <2> QED BY <1>5, <2>1
  <1>7. pool.tokens = old.tokens + amount
    BY DEF DepositInto
  <1>8. wallet' \in [Users -> Nat] /\ held' \in Nat
    BY <1>2, <1>3
  <1>9. old = EmptyPool => p \in deployed
    BY <1>2 DEF EmptyPool
  <1> HIDE DEF pool
  <1>10. held' - held = pool.tokens - old.tokens
    BY <1>1, <1>2, <1>3, <1>7
  <1>11. FundStep(p, u, pool, before)
    BY <1>2, <1>4, <1>6, <1>8, <1>9, <1>10 DEF FundStep, old, before
  <1> QED BY <1>11
-----------------------------------------------------------------------------
FundsTyped ==
    /\ pool_balance \in [Pools -> PoolBalance]
    /\ user_balance \in [Pools -> [Users -> UserBalance]]
    /\ wallet \in [Users -> Nat] /\ held \in Nat
EmissionsTyped ==
    /\ emis_config \in [Pools -> BackstopEmissionConfig \cup {None}]
    /\ emis_data \in [Pools -> BackstopEmissionsData \cup {None}]
    /\ user_emis \in [Pools -> [Users -> UserEmissionData \cup {None}]]
RestTyped ==
    /\ now \in Nat /\ deployed \subseteq Pools
    /\ pool_emissions \in [Pools -> Nat] /\ allowance \in [Pools -> Nat]
    /\ reward_zone \in Seq(Pools)
    /\ last_distribution \in Nat /\ emitter_last \in Nat /\ blnd \in Nat
    /\ token_value \in Nat \X Nat

\* The type invariant in three parts, of what changes together.
LEMMA TypedParts == TypeOK <=> FundsTyped /\ EmissionsTyped /\ RestTyped
  BY DEF TypeOK, FundsTyped, EmissionsTyped, RestTyped

\* A step of one pool's and one user's funds keeps the pools' shares those of
\* their users.
LEMMA FundStepOwned ==
    ASSUME Books, NEW p \in Pools, NEW u \in Users, NEW pool, NEW ub, FundStep(p, u, pool, ub)
    PROVE  FundsTyped' /\ AllOwned'
  <1>1. /\ pool_balance \in [Pools -> PoolBalance]
        /\ user_balance \in [Pools -> [Users -> UserBalance]]
        /\ pool_balance[p] \in PoolBalance /\ user_balance[p] \in [Users -> UserBalance]
        /\ \A q \in Pools : Owned(pool_balance[q], user_balance[q])
    BY WalletTyped, PoolTyped
  <1>2. /\ pool_balance' = [pool_balance EXCEPT ![p] = pool]
        /\ user_balance' = [user_balance EXCEPT ![p] = [@ EXCEPT ![u] = ub]]
        /\ pool \in PoolBalance /\ ub \in UserBalance
        /\ wallet' \in [Users -> Nat] /\ held' \in Nat
    BY DEF FundStep, Together
  <1>3. FundsTyped'
    <2>1. [user_balance[p] EXCEPT ![u] = ub] \in [Users -> UserBalance]
      BY <1>1, <1>2
    <2> QED BY <1>1, <1>2, <2>1 DEF FundsTyped
  <1>4. Owned(pool, [user_balance[p] EXCEPT ![u] = ub])
    BY <1>1, <1>2, OwnedFollows DEF FundStep, Together
  <1>5. ASSUME NEW q \in Pools PROVE Owned(pool_balance'[q], user_balance'[q])
    <2>1. CASE q = p
      <3>1. pool_balance'[q] = pool /\ user_balance'[q] = [user_balance[p] EXCEPT ![u] = ub]
        BY <1>1, <1>2, <2>1
      <3> QED BY <1>4, <3>1
    <2>2. CASE q # p
      <3>1. pool_balance'[q] = pool_balance[q] /\ user_balance'[q] = user_balance[q]
        BY <1>1, <1>2, <2>2
      <3> QED BY <1>1, <3>1
    <2> QED BY <2>1, <2>2
  <1>6. AllOwned'
    BY <1>5 DEF AllOwned
  <1> QED BY <1>3, <1>6

\* An update of a pool's index and of one user's record.
LEMMA UpdateIndexed ==
    ASSUME Books, NEW p \in Pools, NEW u \in Users, UpdateEmissions(p, u), now' = now
    PROVE  EmissionsTyped' /\ AllIndexed'
  <1>1. /\ CanUpdateEmissions(p)
        /\ emis_data' = [emis_data EXCEPT ![p] = CurrentData(p)]
        /\ emis_config[p] = None => user_emis' = user_emis
        /\ emis_config[p] # None =>
              user_emis' = [user_emis EXCEPT ![p] = [@ EXCEPT ![u] =
                              [index |-> CurrentData(p).index, accrued |-> AccruedTo(p, u)]]]
        /\ emis_config' = emis_config
    BY DEF UpdateEmissions
  <1>2. /\ emis_config \in [Pools -> BackstopEmissionConfig \cup {None}]
        /\ emis_data \in [Pools -> BackstopEmissionsData \cup {None}]
        /\ user_emis \in [Pools -> [Users -> UserEmissionData \cup {None}]]
        /\ \A q \in Pools : Indexed(q)
    BY DEF Books, TypeOK, AllIndexed
  <1>3. CASE emis_config[p] = None
    <2>1. emis_data[p] = None /\ CurrentData(p) = None
      BY <1>2, <1>3 DEF Indexed, CurrentData
    <2>2. emis_data' = emis_data /\ user_emis' = user_emis
      BY <1>1, <1>2, <1>3, <2>1
    <2> QED BY <1>1, <1>2, <2>2 DEF EmissionsTyped, AllIndexed, Indexed
  <1>4. CASE emis_config[p] # None
    <2> DEFINE d == CurrentData(p)
               r == [index |-> CurrentData(p).index, accrued |-> AccruedTo(p, u)]
    <2>1. /\ d \in BackstopEmissionsData /\ d.index \in Nat /\ d.last_time <= now
          /\ emis_data[p] \in BackstopEmissionsData
          /\ \A v \in Users : RecordOf(p, v).index <= d.index
      BY <1>1, <1>4, CurrentTyped
    <2>2. r \in UserEmissionData /\ r.index = d.index
      BY <1>1, <1>4, CurrentTyped DEF UserEmissionData
    <2>3. d # None /\ r # None /\ emis_data' = [emis_data EXCEPT ![p] = d]
          /\ user_emis' = [user_emis EXCEPT ![p] = [@ EXCEPT ![u] = r]]
      BY <1>1, <1>4, <2>1, <2>2, NoneAssumption
    <2> HIDE DEF d, r
    <2>4. EmissionsTyped'
      <3>1. user_emis[p] \in [Users -> UserEmissionData \cup {None}]
        BY <1>2
      <3>2. [user_emis[p] EXCEPT ![u] = r] \in [Users -> UserEmissionData \cup {None}]
        BY <2>2, <3>1
      <3> QED BY <1>1, <1>2, <2>1, <2>3, <3>2 DEF EmissionsTyped
    <2>5. ASSUME NEW q \in Pools PROVE Indexed(q)'
      <3>1. CASE q # p
        <4>1. emis_data'[q] = emis_data[q] /\ user_emis'[q] = user_emis[q]
          BY <1>2, <2>3, <3>1
        <4> QED BY <1>1, <1>2, <4>1 DEF Indexed
      <3>2. CASE q = p
        <4>1. emis_data'[q] = d /\ emis_config'[q] # None
          BY <1>1, <1>2, <1>4, <2>3, <3>2
        <4>2. ASSUME NEW v \in Users, user_emis'[q][v] # None
              PROVE  user_emis'[q][v].index <= d.index
          <5>1. CASE v = u
            <6>1. user_emis'[q][v] = r
              BY <1>2, <2>3, <3>2, <5>1
            <6> QED BY <2>1, <2>2, <6>1
          <5>2. CASE v # u
            <6>1. user_emis'[q][v] = user_emis[p][v]
              BY <1>2, <2>3, <3>2, <5>2
            <6> QED BY <2>1, <4>2, <6>1 DEF RecordOf
          <5> QED BY <5>1, <5>2
        <4> QED BY <1>1, <2>1, <2>3, <4>1, <4>2 DEF Indexed
      <3> QED BY <3>1, <3>2
    <2> QED BY <2>4, <2>5 DEF AllIndexed
  <1> QED BY <1>3, <1>4
\* A factor of both sides of an inequality may be left out.
LEMMA Cancelled ==
    ASSUME NEW x \in Nat, NEW y \in Nat, NEW z \in Nat \ {0}, z * x <= y * z
    PROVE  x <= y
  <1>1. SUFFICES ASSUME y < x PROVE FALSE
    OBVIOUS
  <1>2. (y + 1) * z <= x * z
    BY <1>1, ProductGrows
  <1>3. (y + 1) * z = y * z + z /\ x * z = z * x /\ y * z \in Nat /\ z * x \in Nat
    OBVIOUS
  <1> QED BY <1>2, <1>3

\* An order of scaled shares is that of their scaled totals.
LEMMA ScaledTotals ==
    ASSUME NEW f \in [Pools -> Nat], NEW h \in [Pools -> Nat], NEW c \in Nat, NEW d \in Nat,
           \A p \in Pools : c * f[p] <= d * h[p]
    PROVE  c * Total(f) <= d * Total(h)
  <1> DEFINE x == [p \in Pools |-> c * f[p]]
             y == [p \in Pools |-> d * h[p]]
  <1>1. Total(x) = c * Total(f) /\ Total(y) = d * Total(h)
    BY TotalScales, Finite
  <1>2. \A p \in Pools : c * f[p] \in Nat /\ d * h[p] \in Nat
    BY ProductNat
  <1>3. x \in [Pools -> Nat] /\ y \in [Pools -> Nat] /\ \A p \in Pools : x[p] <= y[p]
    BY <1>2
  <1> HIDE DEF x, y
  <1>4. Total(x) <= Total(y)
    BY <1>3, TotalGrows, Finite
  <1> QED BY <1>1, <1>4

-----------------------------------------------------------------------------
\* What a claim of a list of pools takes, deposits and mints for each pool.
Claims(list, from) == [p \in Pools |-> ClaimOf(list, p, from)]
Deposits(list, from, out) ==
    [p \in Pools |-> IF p \in ToSet(list)
                     THEN MulFloor(out, ShareOf(list, p, from), Total(Claims(list, from))) ELSE 0]
Mints(list, from, out) ==
    [p \in Pools |-> IF p \in ToSet(list)
                     THEN ConvertToShares(pool_balance[p], Deposits(list, from, out)[p]) ELSE 0]

\* A claim's list names pools.
LEMMA Listed == ASSUME NEW list \in Seq(Pools) PROVE ToSet(list) \subseteq Pools
  <1>1. \A i \in DOMAIN list : list[i] \in Pools
    BY ElementOfSeq, LenProperties
  <1> QED BY <1>1 DEF ToSet

\* What the pools of a set have in total, when the others have nothing.
LEMMA PoolsWider ==
    ASSUME NEW L \in SUBSET Pools, NEW h \in [Pools -> Nat], \A p \in Pools \ L : h[p] = 0
    PROVE  Total([p \in L |-> h[p]]) = Total(h)
  BY TotalWider, Finite

\* What a claim finds accrued, as a number for every pool.
LEMMA ClaimsTyped ==
    ASSUME Books, NEW list \in Seq(Pools), NEW from \in Users,
           \A p \in ToSet(list) : CanUpdateEmissions(p)
    PROVE  /\ Claims(list, from) \in [Pools -> Nat] /\ Total(Claims(list, from)) \in Nat
           /\ Total(Claims(list, from))
                = SumFunction([p \in ToSet(list) |-> ClaimOf(list, p, from)])
  <1> DEFINE L == ToSet(list)
             f == [p \in L |-> ClaimOf(list, p, from)]
             h == Claims(list, from)
  <1>1. \A p \in Pools : ClaimOf(list, p, from) \in Nat
    BY CurrentTyped DEF ClaimOf
  <1>2. L \subseteq Pools /\ IsFiniteSet(Pools)
    BY Listed, Finite
  <1>3. f \in [L -> Nat] /\ h \in [Pools -> Nat]
    BY <1>1, <1>2 DEF Claims
  <1>4. (\A p \in L : h[p] = f[p]) /\ \A p \in Pools \ L : h[p] = 0
    BY <1>2 DEF Claims, ClaimOf
  <1>5. f = [p \in L |-> h[p]]
    BY <1>4
  <1> HIDE DEF f, h, L
  <1>7. Total(h) = Total(f)
    <2>1. L \in SUBSET Pools /\ h \in [Pools -> Nat] /\ \A p \in Pools \ L : h[p] = 0
      BY <1>2, <1>3, <1>4
    <2>2. Total([p \in L |-> h[p]]) = Total(h)
      BY <2>1, PoolsWider
    <2> QED BY <1>5, <2>2
  <1>6. Total(h) \in Nat
    BY <1>2, <1>3, TotalNat
  <1> QED BY <1>3, <1>7, <1>6, SumIsTotal DEF f, h, L

\* The deposits of a claim are no more than the tokens it bought.
LEMMA DepositsBounded ==
    ASSUME Books, NEW list \in Seq(Pools), NEW from \in Users, NEW out \in Nat,
           \A p \in ToSet(list) : CanUpdateEmissions(p), Total(Claims(list, from)) # 0
    PROVE  /\ Deposits(list, from, out) \in [Pools -> Nat]
           /\ Total(Deposits(list, from, out)) \in Nat
           /\ Total(Deposits(list, from, out)) <= out
  <1> DEFINE claims == Claims(list, from)
             c == Total(claims)
             deposits == Deposits(list, from, out)
  <1>1. claims \in [Pools -> Nat] /\ c \in Nat \ {0}
    BY ClaimsTyped
  <1>2. \A p \in Pools : ShareOf(list, p, from) \in Nat /\ ShareOf(list, p, from) <= claims[p]
    <2>1. \A p \in Pools : claims[p] \in Nat /\ claims[p] = ClaimOf(list, p, from)
      BY <1>1 DEF Claims
    <2> QED BY <2>1 DEF ShareOf
  <1>3. \A p \in Pools :
           deposits[p] = IF p \in ToSet(list) THEN MulFloor(out, ShareOf(list, p, from), c) ELSE 0
    BY DEF Deposits
  <1>4. DOMAIN deposits = Pools /\ deposits = [p \in Pools |-> deposits[p]]
    BY DEF Deposits
  <1> HIDE DEF claims, c, deposits
  <1>5. ASSUME NEW p \in Pools
        PROVE  deposits[p] \in Nat /\ c * deposits[p] <= out * claims[p]
    <2> DEFINE share == ShareOf(list, p, from)
               d == deposits[p]
    <2>1. share \in Nat /\ share <= claims[p] /\ claims[p] \in Nat
      BY <1>1, <1>2
    <2>2. out * share <= out * claims[p] /\ out * share \in Nat /\ out * claims[p] \in Nat
      <3> HIDE DEF share
      <3> QED BY <2>1, ProductGrows, ProductNat
    <2>3. CASE p \in ToSet(list)
      <3>1. MulFloor(out, share, c) \in Nat /\ MulFloor(out, share, c) * c <= out * share
        BY <1>1, <2>1, MulFloorBounds
      <3>2. d = MulFloor(out, share, c)
        BY <1>3, <2>3
      <3>3. d \in Nat /\ d * c <= out * share
        BY <3>1, <3>2
      <3> HIDE DEF d, share
      <3>4. c * d = d * c /\ d * c \in Nat
        BY <1>1, <3>3
      <3>5. d \in Nat /\ c * d <= out * claims[p]
        BY <2>2, <3>3, <3>4
      <3> QED BY <3>5 DEF d
    <2>4. CASE p \notin ToSet(list)
      <3>1. d = 0
        BY <1>3, <2>4
      <3>2. c * 0 = 0
        BY <1>1
      <3> QED BY <2>2, <3>1, <3>2
    <2> QED BY <2>3, <2>4
  <1>6. deposits \in [Pools -> Nat]
    BY <1>4, <1>5
  <1> DEFINE f == [p \in Pools |-> c * deposits[p]]
             h == [p \in Pools |-> out * claims[p]]
  <1>7. Total(f) = c * Total(deposits) /\ Total(h) = out * c
    BY <1>1, <1>6, TotalScales, Finite DEF c
  <1>8. f \in [Pools -> Nat] /\ h \in [Pools -> Nat] /\ \A p \in Pools : f[p] <= h[p]
    <2>1. \A p \in Pools : c * deposits[p] \in Nat /\ out * claims[p] \in Nat
      BY <1>1, <1>5, ProductNat
    <2> QED BY <1>5, <2>1
  <1> HIDE DEF f, h
  <1>9. Total(f) <= Total(h)
    BY <1>8, TotalGrows, Finite
  <1>10. Total(deposits) \in Nat
    BY <1>6, TotalNat, Finite
  <1> DEFINE t == Total(deposits)
  <1>11. t \in Nat /\ c * t <= out * c
    BY <1>7, <1>9, <1>10
  <1> HIDE DEF t
  <1>12. t <= out
    <2>1. SUFFICES ASSUME out < t PROVE FALSE
      BY <1>11
    <2>2. (out + 1) * c <= t * c
      BY <1>1, <1>11, <2>1, ProductGrows
    <2>3. (out + 1) * c = out * c + c /\ t * c = c * t /\ out * c \in Nat
      BY <1>1, <1>11
    <2> QED BY <1>1, <1>11, <2>2, <2>3
  <1> QED BY <1>6, <1>10, <1>12 DEF t, deposits

\* What a claim that is not empty does to the funds of every pool.
LEMMA ClaimFunds ==
    ASSUME Books, NEW list \in Seq(Pools), NEW from \in Users, NEW to \in Users, NEW out \in Nat,
           Claim(list, from, to, out), Total(Claims(list, from)) # 0
    PROVE  /\ \A p \in ToSet(list) : CanUpdateEmissions(p) /\ CanConvertToShares(pool_balance[p])
           /\ Deposits(list, from, out) \in [Pools -> Nat]
           /\ Mints(list, from, out) \in [Pools -> Nat]
           /\ pool_balance' = [p \in Pools |->
                 DepositInto(pool_balance[p], Deposits(list, from, out)[p],
                             Mints(list, from, out)[p])]
           /\ user_balance' = [p \in Pools |-> [user_balance[p] EXCEPT ![to].shares =
                                                 @ + Mints(list, from, out)[p]]]
           /\ blnd' = blnd - Total(Claims(list, from)) /\ blnd' \in Nat
           /\ held' = held + out /\ wallet' = wallet
  <1> DEFINE c == Total(Claims(list, from))
             D == Deposits(list, from, out)
             M == Mints(list, from, out)
             L == ToSet(list)
  <1>1. \A p \in L : CanUpdateEmissions(p)
    BY DEF Claim
  <1>2. /\ c \in Nat /\ c = SumFunction([p \in L |-> ClaimOf(list, p, from)])
        /\ D \in [Pools -> Nat]
    BY <1>1, ClaimsTyped, DepositsBounded
  <1>3. /\ c <= blnd /\ blnd' = blnd - c
        /\ held' = held + out /\ wallet' = wallet
        /\ \A p \in L : CanConvertToShares(pool_balance[p])
    BY <1>2, Zenon DEF Claim
  <1>4. /\ pool_balance' = [p \in Pools |->
                IF p \in L THEN DepositInto(pool_balance[p],
                                  MulFloor(out, ShareOf(list, p, from), c),
                                  ConvertToShares(pool_balance[p],
                                                  MulFloor(out, ShareOf(list, p, from), c)))
                            ELSE pool_balance[p]]
        /\ user_balance' = [p \in Pools |->
                IF p \in L THEN [user_balance[p] EXCEPT ![to].shares =
                                   @ + ConvertToShares(pool_balance[p],
                                                       MulFloor(out, ShareOf(list, p, from), c))]
                ELSE user_balance[p]]
    BY <1>2, Zenon DEF Claim
  <1>5. \A p \in Pools :
           /\ p \in L => D[p] = MulFloor(out, ShareOf(list, p, from), c)
           /\ p \in L => M[p] = ConvertToShares(pool_balance[p], D[p])
           /\ p \notin L => D[p] = 0 /\ M[p] = 0
    BY DEF Deposits, Mints
  <1>6. M = [p \in Pools |-> M[p]]
    BY DEF Mints
  <1> HIDE DEF c, D, M, L
  <1>7. \A p \in Pools : M[p] \in Nat
    <2>1. ASSUME NEW p \in Pools, p \in L PROVE M[p] \in Nat
      <3>1. D[p] \in Nat /\ pool_balance[p] \in PoolBalance /\ CanConvertToShares(pool_balance[p])
        BY <1>2, <1>3, <2>1, PoolTyped
      <3>2. ConvertToShares(pool_balance[p], D[p]) \in Nat
        BY <3>1, Exchange
      <3> QED BY <1>5, <2>1, <3>2
    <2> QED BY <1>5, <2>1
  <1>8. M \in [Pools -> Nat]
    BY <1>6, <1>7
  <1>9. ASSUME NEW p \in Pools, p \notin L
        PROVE  /\ DepositInto(pool_balance[p], D[p], M[p]) = pool_balance[p]
               /\ [user_balance[p] EXCEPT ![to].shares = @ + M[p]] = user_balance[p]
    <2>1. D[p] = 0 /\ M[p] = 0
      BY <1>5, <1>9
    <2>2. pool_balance[p] \in PoolBalance /\ user_balance[p] \in [Users -> UserBalance]
      BY PoolTyped
    <2>3. \A b \in PoolBalance : DepositInto(b, 0, 0) = b
      BY DEF PoolBalance, DepositInto
    <2>4. [user_balance[p] EXCEPT ![to].shares = @ + 0] = user_balance[p]
      <3>1. [user_balance[p][to] EXCEPT !.shares = @ + 0] = user_balance[p][to]
        BY <2>2 DEF UserBalance
      <3> QED BY <2>2, <3>1
    <2> QED BY <2>1, <2>2, <2>3, <2>4
  <1>10. pool_balance' = [p \in Pools |-> DepositInto(pool_balance[p], D[p], M[p])]
    BY <1>4, <1>5, <1>9
  <1>11. user_balance' = [p \in Pools |-> [user_balance[p] EXCEPT ![to].shares = @ + M[p]]]
    BY <1>4, <1>5, <1>9
  <1>12. blnd' \in Nat
    BY <1>2, <1>3 DEF Books, TypeOK
  <1> QED BY <1>1, <1>2, <1>3, <1>8, <1>10, <1>11, <1>12 DEF c, D, M, L
-----------------------------------------------------------------------------
Tokens(pb) == [p \in Pools |-> pb[p].tokens]
Backed == Total(Tokens(pool_balance)) <= held

\* The tokens of the pools are numbers.
LEMMA TokensTyped ==
    ASSUME NEW pb \in [Pools -> PoolBalance]
    PROVE  /\ Tokens(pb) \in [Pools -> Nat] /\ Total(Tokens(pb)) \in Nat
           /\ \A p \in Pools : Tokens(pb)[p] = pb[p].tokens
  <1>1. \A p \in Pools : pb[p].tokens \in Nat
    BY DEF PoolBalance
  <1>2. Tokens(pb) \in [Pools -> Nat] /\ \A p \in Pools : Tokens(pb)[p] = pb[p].tokens
    BY <1>1 DEF Tokens
  <1> QED BY <1>2, TotalNat, Finite

\* The tokens a step brings or takes are those of its pool.
LEMMA FundStepTokens ==
    ASSUME Books, NEW p \in Pools, NEW u \in Users, NEW pool, NEW ub, FundStep(p, u, pool, ub)
    PROVE  Total(Tokens(pool_balance')) - Total(Tokens(pool_balance)) = held' - held
  <1>1. FundsTyped /\ FundsTyped'
    BY FundStepOwned, TypedParts DEF Books
  <1> DEFINE t == Tokens(pool_balance)
             s == Tokens(pool_balance')
  <1>2. t \in [Pools -> Nat] /\ \A q \in Pools : t[q] = pool_balance[q].tokens
    BY <1>1, TokensTyped DEF FundsTyped
  <1>3. s \in [Pools -> Nat] /\ \A q \in Pools : s[q] = pool_balance'[q].tokens
    BY <1>1, TokensTyped DEF FundsTyped
  <1>4. pool_balance' = [pool_balance EXCEPT ![p] = pool] /\ pool_balance \in [Pools -> PoolBalance]
        /\ held' - held = pool.tokens - pool_balance[p].tokens
    BY <1>1 DEF FundStep, FundsTyped
  <1> HIDE DEF t, s
  <1>5. s[p] = pool.tokens /\ \A q \in Pools \ {p} : s[q] = t[q]
    BY <1>2, <1>3, <1>4
  <1>6. t \in [Pools -> Nat] /\ s \in [Pools -> Nat] /\ \A q \in Pools \ {p} : s[q] = t[q]
    BY <1>2, <1>3, <1>5
  <1>7. s[p] - t[p] = held' - held
    BY <1>2, <1>4, <1>5
  <1>8. Total(s) = Total(t) + s[p] - t[p]
    BY <1>6, TotalFollows, Finite
  <1>9. Total(s) \in Nat /\ Total(t) \in Nat /\ s[p] \in Nat /\ t[p] \in Nat
    BY <1>6, TotalNat, Finite
  <1>10. Total(s) - Total(t) = s[p] - t[p]
    BY <1>8, <1>9
  <1> QED BY <1>7, <1>10 DEF s, t

\* A claim that deposits leaves the shares of each pool those of its users, and
\* credits its deposits, no more tokens than came in.
LEMMA ClaimOwned ==
    ASSUME Books, NEW list \in Seq(Pools), NEW from \in Users, NEW to \in Users, NEW out \in Nat,
           Claim(list, from, to, out), Total(Claims(list, from)) # 0
    PROVE  /\ FundsTyped' /\ AllOwned'
           /\ Total(Tokens(pool_balance')) - Total(Tokens(pool_balance)) <= held' - held
           /\ Total(Tokens(pool_balance')) - Total(Tokens(pool_balance))
                = Total(Deposits(list, from, out))
  <1> DEFINE D == Deposits(list, from, out)
             M == Mints(list, from, out)
  <1>1. /\ \A p \in ToSet(list) : CanUpdateEmissions(p)
        /\ D \in [Pools -> Nat] /\ M \in [Pools -> Nat]
        /\ pool_balance' = [p \in Pools |-> DepositInto(pool_balance[p], D[p], M[p])]
        /\ user_balance' = [p \in Pools |-> [user_balance[p] EXCEPT ![to].shares = @ + M[p]]]
        /\ held' = held + out /\ wallet' = wallet
    BY ClaimFunds
  <1>2. Total(D) \in Nat /\ Total(D) <= out
    BY <1>1, DepositsBounded
  <1> HIDE DEF D, M
  <1>3. FundsTyped /\ \A p \in Pools :
           /\ pool_balance[p] \in PoolBalance /\ user_balance[p] \in [Users -> UserBalance]
           /\ Owned(pool_balance[p], user_balance[p])
    BY PoolTyped, TypedParts DEF Books
  <1>4. ASSUME NEW p \in Pools
        PROVE  /\ pool_balance'[p] \in PoolBalance
               /\ pool_balance'[p].tokens = pool_balance[p].tokens + D[p]
               /\ user_balance'[p] \in [Users -> UserBalance]
               /\ Owned(pool_balance'[p], user_balance'[p])
    <2> DEFINE old == pool_balance[p]
               before == user_balance[p][to]
               new == DepositInto(old, D[p], M[p])
               ub == [before EXCEPT !.shares = @ + M[p]]
    <2>1. D[p] \in Nat /\ M[p] \in Nat /\ old \in PoolBalance /\ before \in UserBalance
      BY <1>1, <1>3
    <2>2. pool_balance'[p] = new /\ user_balance'[p] = [user_balance[p] EXCEPT ![to] = ub]
      BY <1>1
    <2> HIDE DEF old, before
    <2>3. Together(old, new, before, ub)
      BY <2>1, DepositTogether
    <2>4. new.tokens = old.tokens + D[p]
      BY DEF DepositInto
    <2> HIDE DEF new, ub
    <2>5. Owned(new, [user_balance[p] EXCEPT ![to] = ub])
      BY <1>3, <2>3, OwnedFollows DEF Together, old, before
    <2>6. new \in PoolBalance /\ [user_balance[p] EXCEPT ![to] = ub] \in [Users -> UserBalance]
      BY <1>3, <2>3 DEF Together
    <2> QED BY <2>2, <2>4, <2>5, <2>6 DEF old
  <1>5. FundsTyped'
    <2>1. pool_balance' \in [Pools -> PoolBalance]
      BY <1>1, <1>4
    <2>2. user_balance' \in [Pools -> [Users -> UserBalance]]
      BY <1>1, <1>4
    <2> QED BY <1>1, <1>3, <2>1, <2>2 DEF FundsTyped
  <1>6. AllOwned'
    BY <1>4 DEF AllOwned
  <1> DEFINE t == Tokens(pool_balance)
             s == Tokens(pool_balance')
  <1>7. /\ t \in [Pools -> Nat] /\ \A p \in Pools : t[p] = pool_balance[p].tokens
        /\ s \in [Pools -> Nat] /\ \A p \in Pools : s[p] = pool_balance'[p].tokens
    BY <1>3, <1>5, TokensTyped DEF FundsTyped
  <1>8. s = [p \in Pools |-> t[p] + D[p]]
    BY <1>4, <1>7
  <1> HIDE DEF t, s
  <1>9. Total(s) = Total(t) + Total(D)
    <2>1. t \in [Pools -> Nat] /\ D \in [Pools -> Nat]
      BY <1>1, <1>7
    <2>2. Total([p \in Pools |-> t[p] + D[p]]) = Total(t) + Total(D)
      BY <2>1, TotalAdds, Finite
    <2> QED BY <1>8, <2>2
  <1>11. Total(t) \in Nat /\ held \in Nat
    BY <1>3, <1>7, TotalNat, Finite DEF FundsTyped
  <1>10. Total(s) - Total(t) <= held' - held /\ Total(s) - Total(t) = Total(D)
    BY <1>1, <1>2, <1>9, <1>11
  <1> QED BY <1>5, <1>6, <1>10 DEF s, t, D
-----------------------------------------------------------------------------
\* A claim brings the indices of its pools to this time and takes what the
\* claimer accrued.
LEMMA ClaimIndexed ==
    ASSUME Books, NEW list \in Seq(Pools), NEW from \in Users, NEW to, NEW out,
           Claim(list, from, to, out), now' = now
    PROVE  EmissionsTyped' /\ AllIndexed'
  <1> DEFINE L == ToSet(list)
             taken(p) == [index |-> CurrentData(p).index, accrued |-> 0]
  <1>1. /\ \A p \in L : CanUpdateEmissions(p)
        /\ emis_data' = [p \in Pools |-> IF p \in L THEN CurrentData(p) ELSE emis_data[p]]
        /\ user_emis' = [p \in Pools |->
              IF p \in L /\ emis_config[p] # None
              THEN [user_emis[p] EXCEPT ![from] = [index |-> CurrentData(p).index, accrued |-> 0]]
              ELSE user_emis[p]]
        /\ emis_config' = emis_config
    BY DEF Claim
  <1>2. /\ emis_config \in [Pools -> BackstopEmissionConfig \cup {None}]
        /\ emis_data \in [Pools -> BackstopEmissionsData \cup {None}]
        /\ user_emis \in [Pools -> [Users -> UserEmissionData \cup {None}]]
        /\ \A q \in Pools : Indexed(q)
    BY DEF Books, TypeOK, AllIndexed
  <1> HIDE DEF L
  <1>3. ASSUME NEW p \in Pools
        PROVE  /\ emis_data'[p] \in BackstopEmissionsData \cup {None}
               /\ user_emis'[p] \in [Users -> UserEmissionData \cup {None}]
               /\ Indexed(p)'
    <2>1. CASE p \in L /\ emis_config[p] # None
      <3> DEFINE d == CurrentData(p)
                 r == [index |-> CurrentData(p).index, accrued |-> 0]
      <3>1. emis_data'[p] = d /\ user_emis'[p] = [user_emis[p] EXCEPT ![from] = r]
        BY <1>1, <2>1
      <3>2. /\ d \in BackstopEmissionsData /\ d.index \in Nat /\ d.last_time <= now
            /\ \A v \in Users : RecordOf(p, v).index <= d.index
        BY <1>1, <2>1, CurrentTyped
      <3>3. r \in UserEmissionData /\ r.index = d.index /\ d # None
        BY <3>2, NoneAssumption DEF UserEmissionData
      <3> HIDE DEF d, r
      <3>4. user_emis'[p] \in [Users -> UserEmissionData \cup {None}]
        BY <1>2, <3>1, <3>3
      <3>5. ASSUME NEW v \in Users, user_emis'[p][v] # None
            PROVE  user_emis'[p][v].index <= d.index
        <4>1. CASE v = from
          BY <1>2, <3>1, <3>2, <3>3, <4>1
        <4>2. CASE v # from
          <5>1. user_emis'[p][v] = user_emis[p][v]
            BY <1>2, <3>1, <4>2
          <5> QED BY <3>2, <3>5, <5>1 DEF RecordOf
        <4> QED BY <4>1, <4>2
      <3>6. Indexed(p)'
        BY <1>1, <2>1, <3>1, <3>2, <3>3, <3>5 DEF Indexed
      <3> QED BY <3>1, <3>2, <3>4, <3>6
    <2>2. CASE ~ (p \in L /\ emis_config[p] # None)
      <3>1. emis_config[p] = None => CurrentData(p) = None /\ emis_data[p] = None
        BY <1>2 DEF CurrentData, Indexed
      <3>2. emis_data'[p] = emis_data[p] /\ user_emis'[p] = user_emis[p]
        BY <1>1, <2>2, <3>1
      <3> QED BY <1>1, <1>2, <3>2 DEF Indexed
    <2> QED BY <2>1, <2>2
  <1>4. EmissionsTyped'
    <2>1. emis_data' \in [Pools -> BackstopEmissionsData \cup {None}]
      BY <1>1, <1>3
    <2>2. user_emis' \in [Pools -> [Users -> UserEmissionData \cup {None}]]
      BY <1>1, <1>3
    <2> QED BY <1>1, <1>2, <2>1, <2>2 DEF EmissionsTyped
  <1>5. AllIndexed'
    BY <1>3 DEF AllIndexed
  <1> QED BY <1>4, <1>5

-----------------------------------------------------------------------------
\* A pool's queued shares are worth no more than its tokens.
LEMMA NonQueuedNat ==
    ASSUME NEW pool \in PoolBalance, pool.q4w <= pool.shares
    PROVE  NonQueuedTokens(pool) \in Nat
  <1> DEFINE n == ConvertToTokens(pool, pool.q4w)
  <1>1. pool.shares \in Nat /\ pool.tokens \in Nat /\ pool.q4w \in Nat
    BY DEF PoolBalance
  <1>2. n \in Nat /\ (pool.shares # 0 => n * pool.shares <= pool.q4w * pool.tokens)
    BY <1>1, Exchange
  <1>3. pool.shares = 0 => n = 0
    BY <1>1 DEF ConvertToTokens
  <1> HIDE DEF n
  <1>4. ASSUME pool.shares # 0, pool.tokens < n PROVE FALSE
    <2>1. pool.q4w * pool.tokens <= pool.shares * pool.tokens
      BY <1>1, ProductGrows
    <2>2. (pool.tokens + 1) * pool.shares <= n * pool.shares
      BY <1>1, <1>2, <1>4, ProductGrows
    <2>3. (pool.tokens + 1) * pool.shares = pool.shares * pool.tokens + pool.shares
      BY <1>1
    <2>4. pool.shares * pool.tokens \in Nat /\ pool.q4w * pool.tokens \in Nat /\ n * pool.shares \in Nat
      BY <1>1, <1>2, ProductNat
    <2> QED BY <1>1, <1>2, <1>4, <2>1, <2>2, <2>3, <2>4
  <1>5. n <= pool.tokens
    BY <1>1, <1>2, <1>3, <1>4
  <1> QED BY <1>1, <1>2, <1>5 DEF NonQueuedTokens, n

\* What gulp_emissions shares out, and what each pool gets of it.
New == (emitter_last - last_distribution) * Scalar7
Share(p) == DivFloor(NonQueuedTokens(pool_balance[p]), ZoneTokens, Scalar7)
Part(p, tenths) ==
    MulFloor(Share(p), MulFloor(New, (tenths * Scalar7) \div 10, Scalar7), Scalar7)
NonQueued == [p \in Pools |-> NonQueuedTokens(pool_balance[p])]

\* The reward zone is a list of pools with tokens.
LEMMA ZoneTyped ==
    ASSUME Books
    PROVE  /\ NonQueued \in [Pools -> Nat] /\ ZoneTokens \in Nat
           /\ New \in Nat /\ Scalar7 \in Nat \ {0}
           /\ ToSet(reward_zone) \subseteq Pools
           /\ Len(reward_zone) \in Nat /\ DOMAIN reward_zone = 1..Len(reward_zone)
           /\ ZoneTokens = Total([i \in 1..Len(reward_zone) |-> NonQueued[reward_zone[i]]])
           /\ \A i \in 1..Len(reward_zone) : reward_zone[i] \in Pools
  <1>1. \A p \in Pools : NonQueuedTokens(pool_balance[p]) \in Nat
    BY PoolTyped, NonQueuedNat
  <1>2. NonQueued \in [Pools -> Nat]
    BY <1>1 DEF NonQueued
  <1>3. reward_zone \in Seq(Pools)
    BY DEF Books, TypeOK
  <1>4. /\ Len(reward_zone) \in Nat /\ DOMAIN reward_zone = 1..Len(reward_zone)
        /\ \A i \in 1..Len(reward_zone) : reward_zone[i] \in Pools
    BY <1>3, ElementOfSeq, LenProperties
  <1>5. ZoneTokens = Total([i \in 1..Len(reward_zone) |-> NonQueued[reward_zone[i]]])
    <2>1. [i \in 1..Len(reward_zone) |-> NonQueued[reward_zone[i]]]
            = [i \in DOMAIN reward_zone |-> NonQueuedTokens(pool_balance[reward_zone[i]])]
      BY <1>4 DEF NonQueued
    <2> QED BY <2>1, SumIsTotal DEF ZoneTokens
  <1>6. ZoneTokens \in Nat
    <2> DEFINE f == [i \in 1..Len(reward_zone) |-> NonQueued[reward_zone[i]]]
    <2>1. f \in [1..Len(reward_zone) -> Nat] /\ IsFiniteSet(1..Len(reward_zone))
      BY <1>2, <1>4, FS_Interval
    <2> HIDE DEF f
    <2>2. Total(f) \in Nat
      BY <2>1, TotalNat
    <2> QED BY <1>5, <2>2 DEF f
  <1>7. emitter_last - last_distribution \in Nat /\ Scalar7 \in Nat \ {0}
    BY BalancesAssumption DEF Books, TypeOK, Clocks
  <1>8. New \in Nat
    <2> DEFINE time == emitter_last - last_distribution
    <2>1. time \in Nat
      BY <1>7
    <2>2. New = time * Scalar7
      BY DEF New
    <2> HIDE DEF time
    <2> QED BY <1>7, <2>1, <2>2, ProductNat
  <1>9. ToSet(reward_zone) \subseteq Pools
    BY <1>3, Listed
  <1> QED BY <1>2, <1>4, <1>5, <1>6, <1>7, <1>8, <1>9

\* A pool's parts together are no more than its share of what is new.
LEMMA PartsBounded ==
    ASSUME Books, ZoneTokens # 0, NEW p \in Pools
    PROVE  /\ Share(p) \in Nat /\ Share(p) * ZoneTokens <= NonQueued[p] * Scalar7
           /\ Part(p, 7) \in Nat /\ Part(p, 3) \in Nat
           /\ (Part(p, 7) + Part(p, 3)) * Scalar7 <= Share(p) * New
  <1> DEFINE s7 == Scalar7
             a == (7 * s7) \div 10
             b == (3 * s7) \div 10
             m == MulFloor(New, a, s7)
             n == MulFloor(New, b, s7)
             share == Share(p)
             x == Part(p, 7)
             y == Part(p, 3)
             new == New
  <1>1. new \in Nat /\ s7 \in Nat \ {0} /\ ZoneTokens \in Nat \ {0} /\ NonQueued[p] \in Nat
        /\ NonQueued[p] = NonQueuedTokens(pool_balance[p])
    BY ZoneTyped DEF NonQueued
  <1>2. share \in Nat /\ share * ZoneTokens <= NonQueued[p] * s7
    BY <1>1, DivFloorBounds DEF Share
  <1>3. x = MulFloor(share, m, s7) /\ y = MulFloor(share, n, s7)
    BY DEF Part
  <1> HIDE DEF s7, x, y, new, share
  <1>4. a \in Nat /\ b \in Nat /\ a + b <= s7
    BY <1>1
  <1> HIDE DEF a, b
  <1>5. m \in Nat /\ n \in Nat /\ m * s7 <= new * a /\ n * s7 <= new * b
    BY <1>1, <1>4, MulFloorBounds DEF new
  <1> HIDE DEF m, n
  <1>6. m + n <= new
    <2>1. SUFFICES ASSUME new < m + n PROVE FALSE
      BY <1>1, <1>5
    <2>2. (new + 1) * s7 <= (m + n) * s7
      BY <1>1, <1>5, <2>1, ProductGrows
    <2>3. new * (a + b) <= new * s7
      BY <1>1, <1>4, ProductGrows
    <2>4. /\ (m + n) * s7 = m * s7 + n * s7 /\ new * (a + b) = new * a + new * b
          /\ (new + 1) * s7 = new * s7 + s7
      BY <1>1, <1>4, <1>5
    <2>5. m * s7 \in Nat /\ n * s7 \in Nat /\ new * a \in Nat /\ new * b \in Nat /\ new * s7 \in Nat
      BY <1>1, <1>4, <1>5, ProductNat
    <2> QED BY <1>1, <1>5, <2>2, <2>3, <2>4, <2>5
  <1>7. x \in Nat /\ y \in Nat /\ x * s7 <= share * m /\ y * s7 <= share * n
    BY <1>1, <1>2, <1>3, <1>5, MulFloorBounds
  <1>8. (x + y) * s7 <= share * new
    <2>1. share * (m + n) <= share * new
      BY <1>1, <1>2, <1>5, <1>6, ProductGrows
    <2>2. (x + y) * s7 = x * s7 + y * s7 /\ share * (m + n) = share * m + share * n
      BY <1>1, <1>2, <1>5, <1>7
    <2>3. /\ x * s7 \in Nat /\ y * s7 \in Nat /\ share * m \in Nat /\ share * n \in Nat
          /\ share * new \in Nat
      BY <1>1, <1>2, <1>5, <1>7, ProductNat
    <2> QED BY <1>7, <2>1, <2>2, <2>3
  <1> QED BY <1>2, <1>7, <1>8 DEF s7, x, y, share, new
\* Over a zone that lists no pool twice, the parts are together no more than what
\* is new.
InZone(p) == p \in ToSet(reward_zone)
Parts == [p \in Pools |-> IF InZone(p) THEN Part(p, 7) + Part(p, 3) ELSE 0]
ZoneShares == [p \in Pools |-> IF InZone(p) THEN Share(p) ELSE 0]
ZoneQueued == [p \in Pools |-> IF InZone(p) THEN NonQueued[p] ELSE 0]

\* In a zone that lists no pool twice the sum over its places is that over its
\* pools.
LEMMA ZoneQueuedTotal ==
    ASSUME Books, \A i, j \in DOMAIN reward_zone : reward_zone[i] = reward_zone[j] => i = j
    PROVE  Total(ZoneQueued) = ZoneTokens
  <1> DEFINE S == 1..Len(reward_zone)
             z == [i \in S |-> reward_zone[i]]
             f == [i \in S |-> NonQueued[reward_zone[i]]]
             h == ZoneQueued
  <1>1. S = DOMAIN reward_zone /\ IsFiniteSet(S) /\ IsFiniteSet(Pools)
    BY ZoneTyped, FS_Interval, Finite
  <1>2. f \in [S -> Nat] /\ z \in [S -> Pools] /\ h \in [Pools -> Nat]
    BY ZoneTyped DEF ZoneQueued
  <1>3. \A i, j \in S : z[i] = z[j] => i = j
    BY <1>1
  <1>4. \A i \in S : h[z[i]] = f[i]
    <2>1. \A i \in S : reward_zone[i] \in Pools /\ InZone(reward_zone[i])
      BY <1>1, ZoneTyped DEF InZone, ToSet
    <2> QED BY <2>1 DEF ZoneQueued
  <1>5. \A p \in Pools : (\A i \in S : z[i] # p) => h[p] = 0
    <2>1. \A p \in Pools : InZone(p) => \E i \in S : z[i] = p
      BY <1>1 DEF InZone, ToSet
    <2> QED BY <2>1 DEF ZoneQueued
  <1>6. Total(f) = ZoneTokens
    BY ZoneTyped
  <1> HIDE DEF S, z, f, h
  <1>7. Total(h) = Total(f)
    BY <1>1, <1>2, <1>3, <1>4, <1>5, TotalMoves
  <1> QED BY <1>6, <1>7 DEF h

\* What gulp_emissions hands out is no more than what the emitter distributed.
LEMMA PartsTotal ==
    ASSUME Books, ZoneTokens # 0,
           \A i, j \in DOMAIN reward_zone : reward_zone[i] = reward_zone[j] => i = j
    PROVE  Parts \in [Pools -> Nat] /\ Total(Parts) \in Nat /\ Total(Parts) <= New
  <1> DEFINE new == New
             s7 == Scalar7
             zt == ZoneTokens
             x == Parts
             y == ZoneShares
             q == ZoneQueued
  <1>1. new \in Nat /\ s7 \in Nat \ {0} /\ zt \in Nat \ {0}
    BY ZoneTyped
  <1>2. /\ x = [p \in Pools |-> x[p]] /\ y = [p \in Pools |-> y[p]] /\ q = [p \in Pools |-> q[p]]
    BY DEF Parts, ZoneShares, ZoneQueued
  <1>3. ASSUME NEW p \in Pools
        PROVE  /\ x[p] \in Nat /\ y[p] \in Nat /\ q[p] \in Nat
               /\ s7 * x[p] <= new * y[p] /\ zt * y[p] <= s7 * q[p]
    <2>1. CASE InZone(p)
      <3> DEFINE a == Part(p, 7)
                 b == Part(p, 3)
                 c == Share(p)
                 d == NonQueued[p]
      <3>1. /\ a \in Nat /\ b \in Nat /\ c \in Nat /\ d \in Nat
            /\ (a + b) * s7 <= c * new /\ c * zt <= d * s7
        BY PartsBounded, ZoneTyped
      <3>2. x[p] = a + b /\ y[p] = c /\ q[p] = d
        BY <2>1 DEF Parts, ZoneShares, ZoneQueued
      <3> HIDE DEF a, b, c, d, x, y, q, new, s7, zt
      <3>3. /\ s7 * (a + b) = (a + b) * s7 /\ new * c = c * new
            /\ zt * c = c * zt /\ s7 * d = d * s7
        BY <1>1, <3>1
      <3> QED BY <3>1, <3>2, <3>3
    <2>2. CASE ~ InZone(p)
      <3>1. x[p] = 0 /\ y[p] = 0 /\ q[p] = 0
        BY <2>2 DEF Parts, ZoneShares, ZoneQueued
      <3> HIDE DEF x, y, q, new, s7, zt
      <3>2. s7 * 0 = 0 /\ new * 0 = 0 /\ zt * 0 = 0
        BY <1>1
      <3> QED BY <3>1, <3>2
    <2> QED BY <2>1, <2>2
  <1>4. Total(q) = zt
    BY ZoneQueuedTotal
  <1> HIDE DEF new, s7, zt, x, y, q
  <1>5. x \in [Pools -> Nat] /\ y \in [Pools -> Nat] /\ q \in [Pools -> Nat]
    BY <1>2, <1>3
  <1>6. Total(x) \in Nat /\ Total(y) \in Nat
    BY <1>5, TotalNat, Finite
  <1>7. s7 * Total(x) <= new * Total(y)
    BY <1>1, <1>3, <1>5, ScaledTotals
  <1>8. zt * Total(y) <= s7 * zt
    BY <1>1, <1>3, <1>4, <1>5, ScaledTotals
  <1> DEFINE t == Total(x)
             r == Total(y)
  <1>9. t \in Nat /\ r \in Nat /\ s7 * t <= new * r /\ zt * r <= s7 * zt
    BY <1>6, <1>7, <1>8
  <1> HIDE DEF t, r
  <1>10. r <= s7
    BY <1>1, <1>9, Cancelled
  <1>11. new * r <= new * s7
    BY <1>1, <1>9, <1>10, ProductGrows
  <1>12. s7 * t <= new * s7
    BY <1>1, <1>9, <1>11
  <1>13. t <= new
    BY <1>1, <1>9, <1>12, Cancelled
  <1> QED BY <1>5, <1>9, <1>13 DEF t, x, new
-----------------------------------------------------------------------------
IndexAt(p) == IF emis_config[p] = None THEN 0 ELSE CurrentData(p).index
Stream(p) == [expiration |-> now + Window, eps |-> (Part(p, 7) + LeftToEmit(p)) \div Window]

\* What gulp_emissions does to the emissions of every pool.
LEMMA GulpChanges ==
    ASSUME GulpEmissions
    PROVE  /\ reward_zone # <<>> /\ ZoneTokens # 0 /\ last_distribution' = emitter_last
           /\ \A p \in Pools : InZone(p) => CanUpdateEmissions(p)
           /\ pool_emissions' = [p \in Pools |->
                 IF InZone(p) THEN pool_emissions[p] + Part(p, 3) ELSE pool_emissions[p]]
           /\ emis_data' = [p \in Pools |->
                 IF InZone(p) THEN [index |-> IndexAt(p), last_time |-> now] ELSE emis_data[p]]
           /\ emis_config' = [p \in Pools |-> IF InZone(p) THEN Stream(p) ELSE emis_config[p]]
           /\ user_emis' = user_emis
  BY DEF GulpEmissions, InZone, Part, Share, New, Stream, IndexAt, emissions

\* The stream gulp_emissions starts pays out no more than the pool's part and
\* what the old stream had left.
LEMMA StreamTyped ==
    ASSUME Books, ZoneTokens # 0, NEW p \in Pools, InZone(p), CanUpdateEmissions(p)
    PROVE  /\ LeftToEmit(p) \in Nat /\ IndexAt(p) \in Nat
           /\ Stream(p) \in BackstopEmissionConfig
           /\ Stream(p).eps * Window <= Part(p, 7) + LeftToEmit(p)
           /\ Stream(p).expiration = now + Window
           /\ emis_config[p] # None => LeftToEmit(p) = Remaining(emis_config[p], now)
  <1>1. LeftToEmit(p) \in Nat /\ (emis_config[p] # None => LeftToEmit(p) = Remaining(emis_config[p], now))
    <2>1. CASE emis_config[p] = None
      BY <2>1 DEF LeftToEmit
    <2>2. CASE emis_config[p] # None
      <3>1. LeftToEmit(p) = Remaining(emis_config[p], now)
        BY <2>2 DEF LeftToEmit, Remaining
      <3>2. emis_config[p].eps \in Nat /\ emis_config[p].expiration \in Nat /\ now \in Nat
        BY <2>2, WalletTyped DEF Books, TypeOK, BackstopEmissionConfig
      <3>3. Remaining(emis_config[p], now) \in Nat
        BY <3>2, ProductNat DEF Remaining
      <3> QED BY <3>1, <3>3
    <2> QED BY <2>1, <2>2
  <1>2. IndexAt(p) \in Nat
    BY CurrentTyped DEF IndexAt
  <1> DEFINE n == Part(p, 7) + LeftToEmit(p)
             e == n \div Window
  <1>3. Window \in Nat \ {0} /\ now \in Nat
    BY BackstopAssumption, WalletTyped
  <1>4. n \in Nat
    BY <1>1, PartsBounded
  <1>5. Stream(p) = [expiration |-> now + Window, eps |-> e]
    BY DEF Stream
  <1> HIDE DEF n
  <1>6. e \in Nat /\ e * Window <= n
    BY <1>3, <1>4, Quotient
  <1> HIDE DEF e
  <1>7. Stream(p) \in BackstopEmissionConfig /\ Stream(p).eps = e /\ Stream(p).expiration = now + Window
    BY <1>3, <1>5, <1>6 DEF BackstopEmissionConfig
  <1> QED BY <1>1, <1>2, <1>6, <1>7 DEF n

\* gulp_emissions brings every index of the zone up to date, none of them back.
LEMMA GulpIndexed ==
    ASSUME Books, GulpEmissions, now' = now
    PROVE  EmissionsTyped' /\ AllIndexed' /\ pool_emissions' \in [Pools -> Nat]
  <1>1. /\ ZoneTokens # 0 /\ \A p \in Pools : InZone(p) => CanUpdateEmissions(p)
        /\ pool_emissions' = [p \in Pools |->
                 IF InZone(p) THEN pool_emissions[p] + Part(p, 3) ELSE pool_emissions[p]]
        /\ emis_data' = [p \in Pools |->
                 IF InZone(p) THEN [index |-> IndexAt(p), last_time |-> now] ELSE emis_data[p]]
        /\ emis_config' = [p \in Pools |-> IF InZone(p) THEN Stream(p) ELSE emis_config[p]]
        /\ user_emis' = user_emis
    BY GulpChanges
  <1>2. /\ emis_config \in [Pools -> BackstopEmissionConfig \cup {None}]
        /\ emis_data \in [Pools -> BackstopEmissionsData \cup {None}]
        /\ user_emis \in [Pools -> [Users -> UserEmissionData \cup {None}]]
        /\ pool_emissions \in [Pools -> Nat] /\ now \in Nat
        /\ \A q \in Pools : Indexed(q)
    BY DEF Books, TypeOK, AllIndexed
  <1>3. ASSUME NEW p \in Pools
        PROVE  /\ pool_emissions'[p] \in Nat
               /\ emis_data'[p] \in BackstopEmissionsData \cup {None}
               /\ emis_config'[p] \in BackstopEmissionConfig \cup {None}
               /\ Indexed(p)'
    <2>1. CASE InZone(p)
      <3> DEFINE d == [index |-> IndexAt(p), last_time |-> now]
                 c == Stream(p)
      <3>1. emis_data'[p] = d /\ emis_config'[p] = c
            /\ pool_emissions'[p] = pool_emissions[p] + Part(p, 3)
        BY <1>1, <2>1
      <3>2. c \in BackstopEmissionConfig /\ IndexAt(p) \in Nat /\ Part(p, 3) \in Nat
        BY <1>1, <2>1, StreamTyped, PartsBounded
      <3>3. d \in BackstopEmissionsData /\ d.index = IndexAt(p) /\ d.last_time = now
        BY <1>2, <3>2 DEF BackstopEmissionsData
      <3>4. ASSUME NEW v \in Users, user_emis[p][v] # None PROVE user_emis[p][v].index <= IndexAt(p)
        <4>1. emis_config[p] # None
          BY <1>2, <3>4 DEF Indexed
        <4>2. RecordOf(p, v).index <= CurrentData(p).index
          BY <1>1, <2>1, <4>1, CurrentTyped
        <4> QED BY <3>4, <4>1, <4>2 DEF IndexAt, RecordOf
      <3> HIDE DEF d, c
      <3>5. c # None /\ d # None
        BY <3>2, <3>3, NoneAssumption
      <3>6. Indexed(p)'
        BY <1>1, <1>2, <3>1, <3>3, <3>4, <3>5 DEF Indexed
      <3>7. pool_emissions'[p] \in Nat
        BY <1>2, <3>1, <3>2
      <3> QED BY <3>1, <3>2, <3>3, <3>6, <3>7
    <2>2. CASE ~ InZone(p)
      <3>1. /\ emis_data'[p] = emis_data[p] /\ emis_config'[p] = emis_config[p]
            /\ pool_emissions'[p] = pool_emissions[p]
        BY <1>1, <2>2
      <3>2. Indexed(p)'
        BY <1>1, <1>2, <3>1 DEF Indexed
      <3> QED BY <1>2, <3>1, <3>2
    <2> QED BY <2>1, <2>2
  <1>4. pool_emissions' \in [Pools -> Nat]
    BY <1>1, <1>3
  <1>5. EmissionsTyped'
    <2>1. emis_data' \in [Pools -> BackstopEmissionsData \cup {None}]
      BY <1>1, <1>3
    <2>2. emis_config' \in [Pools -> BackstopEmissionConfig \cup {None}]
      BY <1>1, <1>3
    <2> QED BY <1>1, <1>2, <2>1, <2>2 DEF EmissionsTyped
  <1>6. AllIndexed'
    BY <1>3 DEF AllIndexed
  <1> QED BY <1>4, <1>5, <1>6
-----------------------------------------------------------------------------
\* The books after a step, part by part.
LEMMA BooksNext ==
    ASSUME FundsTyped', EmissionsTyped', RestTyped', AllOwned', AllIndexed', Clocks'
    PROVE  Books'
  BY DEF Books, TypeOK, FundsTyped, EmissionsTyped, RestTyped

\* Tokens that are covered stay so when no more are credited than come in.
LEMMA StillCovered ==
    ASSUME NEW t \in Nat, NEW s \in Nat, NEW a \in Nat, NEW b \in Nat,
           t <= a, s - t <= b - a
    PROVE  s <= b
  OBVIOUS

\* A step that leaves the funds alone keeps what is said of them.
LEMMA FundsIdle ==
    ASSUME Books, UNCHANGED funds
    PROVE  FundsTyped' /\ AllOwned' /\ (Backed => Backed')
  BY DEF Books, TypeOK, FundsTyped, AllOwned, funds, Backed

\* A step that leaves the emissions alone keeps what is said of them.
LEMMA EmissionsIdle ==
    ASSUME Books, UNCHANGED emissions, now' \in Nat, now <= now'
    PROVE  EmissionsTyped' /\ AllIndexed'
  <1>1. EmissionsTyped'
    BY DEF Books, TypeOK, EmissionsTyped, emissions
  <1>2. ASSUME NEW p \in Pools PROVE Indexed(p)'
    <2>1. emis_data[p] # None => emis_data[p].last_time \in Nat
      BY DEF Books, TypeOK, BackstopEmissionsData
    <2>2. emis_data[p] # None => emis_data[p].last_time <= now'
      BY <2>1, WalletTyped DEF Books, AllIndexed, Indexed
    <2> QED BY <2>2 DEF Books, AllIndexed, Indexed, emissions
  <1> QED BY <1>1, <1>2 DEF AllIndexed

\* A step that leaves the zone and the emitter alone keeps what is said of them.
LEMMA RestIdle ==
    ASSUME Books, UNCHANGED <<now, deployed, zone, external>>
    PROVE  RestTyped' /\ Clocks'
  BY DEF Books, TypeOK, RestTyped, Clocks, zone, external

\* A step of one pool's and one user's funds keeps the tokens backed.
LEMMA FundStepBacked ==
    ASSUME Books, Backed, NEW p \in Pools, NEW u \in Users,
           \E pool, ub : FundStep(p, u, pool, ub)
    PROVE  FundsTyped' /\ AllOwned' /\ Backed'
  <1>1. PICK pool, ub : FundStep(p, u, pool, ub)
    OBVIOUS
  <1>2. FundsTyped /\ FundsTyped' /\ AllOwned'
    BY <1>1, FundStepOwned, TypedParts DEF Books
  <1> DEFINE t == Total(Tokens(pool_balance))
             s == Total(Tokens(pool_balance'))
  <1>3. t \in Nat /\ s \in Nat /\ held \in Nat /\ held' \in Nat /\ t <= held
    BY <1>2, TokensTyped DEF FundsTyped, Backed
  <1>4. s - t <= held' - held
    <2>1. s - t = held' - held
      BY <1>1, FundStepTokens
    <2>2. \A x, y \in Int : x = y => x <= y
      OBVIOUS
    <2>3. s - t \in Int /\ held' - held \in Int
      BY <1>3
    <2> HIDE DEF s, t
    <2> QED BY <2>1, <2>2, <2>3
  <1> HIDE DEF s, t
  <1>5. s <= held'
    BY <1>3, <1>4, StillCovered
  <1> QED BY <1>2, <1>5 DEF s, Backed

\* A claim keeps the books, and the tokens backed.
LEMMA ClaimBooks ==
    ASSUME Books, Backed, NEW list \in Seq(Pools), NEW from \in Users, NEW to \in Users,
           NEW out \in Nat, Claim(list, from, to, out)
    PROVE  Books' /\ Backed'
  <1>1. now' = now /\ deployed' = deployed /\ UNCHANGED zone
        /\ allowance' = allowance /\ emitter_last' = emitter_last
        /\ \A p \in ToSet(list) : CanUpdateEmissions(p)
    BY DEF Claim
  <1>2. EmissionsTyped' /\ AllIndexed'
    BY <1>1, ClaimIndexed
  <1>3. FundsTyped' /\ AllOwned' /\ Backed' /\ blnd' \in Nat
    <2>1. CASE Total(Claims(list, from)) = 0
      <3>1. UNCHANGED <<funds, blnd>>
        BY <1>1, <2>1, ClaimsTyped, Zenon DEF Claim
      <3> QED BY <3>1, FundsIdle DEF Books, TypeOK
    <2>2. CASE Total(Claims(list, from)) # 0
      <3> DEFINE t == Total(Tokens(pool_balance))
                 s == Total(Tokens(pool_balance'))
      <3>1. FundsTyped' /\ AllOwned' /\ s - t <= held' - held /\ blnd' \in Nat
        BY <2>2, ClaimOwned, ClaimFunds
      <3>2. FundsTyped
        BY TypedParts DEF Books
      <3>3. t \in Nat /\ s \in Nat /\ held \in Nat /\ held' \in Nat /\ t <= held
        BY <3>1, <3>2, TokensTyped DEF FundsTyped, Backed
      <3> HIDE DEF s, t
      <3>4. s <= held'
        BY <3>1, <3>3, StillCovered
      <3> QED BY <3>1, <3>4 DEF s, Backed
    <2> QED BY <2>1, <2>2
  <1>4. RestTyped' /\ Clocks'
    BY <1>1, <1>3 DEF Books, TypeOK, RestTyped, Clocks, zone
  <1> QED BY <1>2, <1>3, <1>4, BooksNext

\* What the callers may pass.
LEMMA AmountsTyped ==
    /\ Amounts \subseteq Nat /\ DrawAmounts \subseteq Nat /\ CometOut \subseteq Nat
    /\ ClaimLists \subseteq Seq(Pools)
    /\ \A pair \in Recipients : pair[1] \in Users /\ pair[2] \in Users
    /\ TokenValues \subseteq Nat \X Nat
  BY BackstopAssumption

\* The books hold when the backstop is initialized.
LEMMA BooksFirst == Init => Books /\ Backed
  <1> SUFFICES ASSUME Init PROVE Books /\ Backed
    OBVIOUS
  <1>1. EmptyPool \in PoolBalance /\ EmptyUser \in UserBalance /\ EmptyPool.tokens = 0
    BY DEF EmptyPool, EmptyUser, PoolBalance, UserBalance
  <1>2. TypeOK
    <2>1. /\ FundsTyped
      BY <1>1, BackstopAssumption DEF Init, FundsTyped
    <2>2. EmissionsTyped
      BY DEF Init, EmissionsTyped
    <2>3. RestTyped
      BY DEF Init, RestTyped
    <2> QED BY <2>1, <2>2, <2>3, TypedParts
  <1>3. AllOwned
    BY OwnedAtFirst DEF Init, AllOwned
  <1>4. AllIndexed
    BY DEF Init, AllIndexed, Indexed
  <1>5. Clocks
    BY DEF Init, Clocks
  <1>6. Backed
    <2>1. Tokens(pool_balance) = [p \in Pools |-> 0]
      BY <1>1 DEF Init, Tokens
    <2> QED BY <2>1, TotalZero, Finite DEF Backed, Init
  <1> QED BY <1>2, <1>3, <1>4, <1>5, <1>6 DEF Books

\* Every step keeps the books: one case per operation.
LEMMA BooksStep == Books /\ Backed /\ [Next]_vars => Books' /\ Backed'
  <1> SUFFICES ASSUME Books, Backed, [Next]_vars PROVE Books' /\ Backed'
    OBVIOUS
  <1>0. now \in Nat /\ now <= now
    BY WalletTyped
  <1>1. CASE UNCHANGED vars
    BY <1>0, <1>1, FundsIdle, EmissionsIdle, RestIdle, BooksNext DEF vars
  <1>2. ASSUME NEW p \in Pools, Deploy(p) PROVE Books' /\ Backed'
    <2>1. UNCHANGED <<now, funds, emissions, zone, external>> /\ deployed' = deployed \cup {p}
      BY <1>2 DEF Deploy
    <2>2. RestTyped' /\ Clocks'
      BY <2>1 DEF Books, TypeOK, RestTyped, Clocks, zone, external
    <2> QED BY <1>0, <2>1, <2>2, FundsIdle, EmissionsIdle, BooksNext
  <1>3. ASSUME NEW p \in Pools, GulpPoolEmissions(p) PROVE Books' /\ Backed'
    <2>1. /\ UNCHANGED <<now, deployed, funds, emissions, reward_zone, last_distribution, blnd,
                          token_value, emitter_last>>
          /\ allowance' = [allowance EXCEPT ![p] = @ + pool_emissions[p]]
          /\ pool_emissions' = [pool_emissions EXCEPT ![p] = 0]
      BY <1>3 DEF GulpPoolEmissions
    <2>2. RestTyped' /\ Clocks'
      BY <2>1 DEF Books, TypeOK, RestTyped, Clocks
    <2> QED BY <1>0, <2>1, <2>2, FundsIdle, EmissionsIdle, BooksNext
  <1>4. ASSUME NEW p \in Pools, NEW u \in Users, NEW amount \in Nat,
               Deposit(u, p, amount) \/ QueueWithdrawal(u, p, amount) \/ DequeueWithdrawal(u, p, amount)
        PROVE  Books' /\ Backed'
    <2>1. UNCHANGED <<now, deployed, zone, external>> /\ UpdateEmissions(p, u)
      BY <1>4 DEF Deposit, QueueWithdrawal, DequeueWithdrawal
    <2>2. \E pool, ub : FundStep(p, u, pool, ub)
      BY <1>4, DepositStep, QueueStep, DequeueStep
    <2> QED BY <2>1, <2>2, FundStepBacked, UpdateIndexed, RestIdle, BooksNext
  <1>5. ASSUME NEW p \in Pools, NEW u \in Users, NEW amount \in Nat,
               Withdraw(u, p, amount) \/ Draw(p, amount, u) \/ Donate(u, p, amount)
        PROVE  Books' /\ Backed'
    <2>1. UNCHANGED <<now, deployed, emissions, zone, external>>
      BY <1>5 DEF Withdraw, Draw, Donate
    <2>2. \E pool, ub : FundStep(p, u, pool, ub)
      BY <1>5, WithdrawStep, DrawStep, DonateStep
    <2> QED BY <1>0, <2>1, <2>2, FundStepBacked, EmissionsIdle, RestIdle, BooksNext
  <1>6. ASSUME NEW list \in ClaimLists, NEW pair \in Recipients, NEW out \in CometOut,
               Claim(list, pair[1], pair[2], out)
        PROVE  Books' /\ Backed'
    <2>1. list \in Seq(Pools) /\ pair[1] \in Users /\ pair[2] \in Users /\ out \in Nat
      BY AmountsTyped
    <2> QED BY <1>6, <2>1, ClaimBooks
  <1>7. ASSUME NEW p \in Pools, NEW q \in Pools, AddReward(p, q) PROVE Books' /\ Backed'
    <2>1. UNCHANGED <<now, deployed, funds, emissions, pool_emissions, last_distribution,
                      token_value, external>>
      BY <1>7 DEF AddReward
    <2>2. reward_zone \in Seq(Pools) /\ <<p>> \in Seq(Pools)
      BY DEF Books, TypeOK
    <2>3. reward_zone' \in Seq(Pools)
      <3>1. CASE reward_zone' = <<p>> \o reward_zone
        BY <2>2, <3>1, ConcatProperties
      <3>2. CASE \E i \in DOMAIN reward_zone : reward_zone' = [reward_zone EXCEPT ![i] = p]
        BY <2>2, <3>2, ExceptSeq
      <3> QED BY <1>7, <3>1, <3>2 DEF AddReward
    <2>4. RestTyped' /\ Clocks'
      BY <2>1, <2>3 DEF Books, TypeOK, RestTyped, Clocks, external
    <2> QED BY <1>0, <2>1, <2>4, FundsIdle, EmissionsIdle, BooksNext
  <1>8. ASSUME NEW value \in TokenValues, UpdateTknVal(value) PROVE Books' /\ Backed'
    <2>1. UNCHANGED <<now, deployed, funds, emissions, pool_emissions, reward_zone,
                      last_distribution, external>> /\ token_value' \in Nat \X Nat
      BY <1>8, AmountsTyped DEF UpdateTknVal
    <2>2. RestTyped' /\ Clocks'
      BY <2>1 DEF Books, TypeOK, RestTyped, Clocks, external
    <2> QED BY <1>0, <2>1, <2>2, FundsIdle, EmissionsIdle, BooksNext
  <1>9. ASSUME NEW p \in Pools, PoolPaysOut(p, allowance[p]) PROVE Books' /\ Backed'
    <2>1. /\ UNCHANGED <<now, deployed, funds, emissions, zone, emitter_last>>
          /\ allowance[p] <= blnd
          /\ allowance' = [allowance EXCEPT ![p] = @ - allowance[p]]
          /\ blnd' = blnd - allowance[p]
      BY <1>9 DEF PoolPaysOut
    <2>2. /\ allowance \in [Pools -> Nat] /\ allowance[p] \in Nat /\ blnd \in Nat
      BY DEF Books, TypeOK
    <2>3. allowance' \in [Pools -> Nat] /\ blnd' \in Nat
      BY <2>1, <2>2
    <2>4. RestTyped' /\ Clocks'
      BY <2>1, <2>3 DEF Books, TypeOK, RestTyped, Clocks, zone
    <2> QED BY <1>0, <2>1, <2>4, FundsIdle, EmissionsIdle, BooksNext
  <1>10. ASSUME GulpEmissions PROVE Books' /\ Backed'
    <2>1. /\ UNCHANGED <<now, deployed, funds, reward_zone, token_value, external>>
          /\ last_distribution' = emitter_last
      BY <1>10 DEF GulpEmissions
    <2>2. EmissionsTyped' /\ AllIndexed' /\ pool_emissions' \in [Pools -> Nat]
      BY <1>10, <2>1, GulpIndexed
    <2>3. RestTyped' /\ Clocks'
      BY <2>1, <2>2 DEF Books, TypeOK, RestTyped, Clocks, external
    <2> QED BY <2>1, <2>2, <2>3, FundsIdle, BooksNext
  <1>11. ASSUME EmitterDistributes PROVE Books' /\ Backed'
    <2>1. /\ UNCHANGED <<now, deployed, funds, emissions, zone, allowance>>
          /\ emitter_last' = now /\ blnd' = blnd + (now - emitter_last) * Scalar7
      BY <1>11 DEF EmitterDistributes
    <2>2. /\ emitter_last \in Nat /\ emitter_last <= now /\ blnd \in Nat
          /\ last_distribution <= emitter_last /\ last_distribution \in Nat /\ Scalar7 \in Nat
      BY BalancesAssumption DEF Books, TypeOK, Clocks
    <2>3. blnd' \in Nat /\ last_distribution <= now
      <3> DEFINE time == now - emitter_last
      <3>1. time \in Nat /\ blnd' = blnd + time * Scalar7
        BY <1>0, <2>1, <2>2
      <3> HIDE DEF time
      <3>2. time * Scalar7 \in Nat
        BY <2>2, <3>1, ProductNat
      <3> QED BY <1>0, <2>2, <3>1, <3>2
    <2>4. RestTyped' /\ Clocks'
      BY <1>0, <2>1, <2>3 DEF Books, TypeOK, RestTyped, Clocks, zone
    <2> QED BY <1>0, <2>1, <2>4, FundsIdle, EmissionsIdle, BooksNext
  <1>12. ASSUME Tick PROVE Books' /\ Backed'
    <2>1. UNCHANGED <<deployed, funds, emissions, zone, external>> /\ now' = now + 1
      BY <1>12 DEF Tick
    <2>2. now' \in Nat /\ now <= now'
      BY <1>0, <2>1
    <2>3. RestTyped' /\ Clocks'
      BY <1>0, <2>1, <2>2 DEF Books, TypeOK, RestTyped, Clocks, zone, external
    <2> QED BY <2>1, <2>2, <2>3, FundsIdle, EmissionsIdle, BooksNext
  <1> QED BY <1>1, <1>2, <1>3, <1>4, <1>5, <1>6, <1>7, <1>8, <1>9, <1>10, <1>11, <1>12,
             AmountsTyped DEF Next
-----------------------------------------------------------------------------
\* The books of the proof are the property the runs check.
LEMMA OwnedShares == Books => SharesMatchUsers
  <1> SUFFICES ASSUME Books, NEW p \in Pools
               PROVE  /\ pool_balance[p].q4w = SumFunction([u \in Users |-> QueuedBy(p, u)])
                      /\ pool_balance[p].shares = pool_balance[p].q4w
                           + SumFunction([u \in Users |-> user_balance[p][u].shares])
    BY DEF SharesMatchUsers
  <1>1. \A u \in Users : QueuedBy(p, u) = Queued(user_balance[p][u].q4w)
    BY SumIsTotal DEF QueuedBy, Queued
  <1>2. [u \in Users |-> QueuedBy(p, u)] = UserQueued(user_balance[p])
    BY <1>1 DEF UserQueued
  <1>3. Owned(pool_balance[p], user_balance[p])
    BY PoolTyped
  <1> QED BY <1>2, <1>3, SumIsTotal DEF Owned, UserShares

\* The sum of the proof is that of the property.
LEMMA BackedTokens == Backed => TokensBackBalances
  BY SumIsTotal DEF Backed, TokensBackBalances, Tokens

\* The inductive invariant of the funds and the emission records.
LEMMA BooksAlways == Spec => [](Books /\ Backed)
  <1>1. Init => Books /\ Backed
    BY BooksFirst
  <1>2. Books /\ Backed /\ [Next]_vars => (Books /\ Backed)'
    BY BooksStep
  <1> QED BY <1>1, <1>2, PTL DEF Spec

\* Every amount the backstop keeps is a natural number: no deposit, dequeue,
\* withdrawal, claim or distribution takes more than there is, and the checks of
\* the contract suffice for the subtractions it leaves unchecked.
THEOREM Typed == Spec => []TypeOK
  <1>1. Books => TypeOK
    BY DEF Books
  <1> QED BY <1>1, BooksAlways, PTL

\* The shares a pool's backstop counts as issued and as queued are those its users
\* own and have queued, whatever amounts partial dequeues and withdrawals split the
\* queue entries into.
THEOREM SharesMatched == Spec => []SharesMatchUsers
  BY BooksAlways, OwnedShares, PTL

\* The contract holds the backstop tokens of all its pools, however claims round
\* what they deposit.
THEOREM TokensBacked == Spec => []TokensBackBalances
  BY BooksAlways, BackedTokens, PTL

-----------------------------------------------------------------------------
\* What the next invariants say of one pool, and of the reward zone.
QueuesOrdered == \A p \in Pools, u \in Users : Ordered(user_balance[p][u].q4w, now)
Fresh(p) == pool_balance[p] = EmptyPool /\ p \notin ToSet(reward_zone) /\ emis_config[p] = None
OnlyDeployed == \A p \in Pools : p \in deployed \/ Fresh(p)
Distinct(q) == \A i, j \in DOMAIN q : q[i] = q[j] => i = j
Standing == QueuesOrdered /\ OnlyDeployed /\ Distinct(reward_zone) /\ Len(reward_zone) <= MaxZoneLen

\* The reward zone's size only grows with time.
LEMMA ZoneLenTyped ==
    ASSUME NEW s \in Nat, NEW t \in Nat, s <= t
    PROVE  /\ ZoneSize + s \div ZoneGrowth \in Nat
           /\ ZoneSize + s \div ZoneGrowth <= ZoneSize + t \div ZoneGrowth
  <1>1. ZoneSize \in Nat /\ ZoneGrowth \in Nat \ {0}
    BY BackstopAssumption
  <1>2. s \div ZoneGrowth \in Nat /\ t \div ZoneGrowth \in Nat /\ s \div ZoneGrowth <= t \div ZoneGrowth
    BY <1>1, Quotient, QuotientMono
  <1> QED BY <1>1, <1>2

\* The standing of the proof is the three properties the runs check.
LEMMA StandingSays ==
    ASSUME Books
    PROVE  /\ QueuesOrdered <=> QueueOrdered
           /\ OnlyDeployed <=> FundedPoolsDeployed
           /\ Distinct(reward_zone) /\ Len(reward_zone) <= MaxZoneLen <=> ZoneWellFormed
  <1>1. \A p \in Pools, u \in Users :
           DOMAIN user_balance[p][u].q4w = 1..Len(user_balance[p][u].q4w)
    BY PoolTyped, Entries
  <1>2. QueuesOrdered <=> QueueOrdered
    BY <1>1 DEF QueuesOrdered, QueueOrdered, Ordered
  <1>3. OnlyDeployed <=> FundedPoolsDeployed
    BY DEF OnlyDeployed, FundedPoolsDeployed, Fresh
  <1>4. Distinct(reward_zone) <=> IsInjective(reward_zone)
    BY DEF Distinct, IsInjective
  <1> QED BY <1>2, <1>3, <1>4 DEF ZoneWellFormed

\* A queue stays ordered as time goes on.
LEMMA LaterOrdered ==
    ASSUME NEW q \in Seq(Q4W), NEW s \in Nat, NEW t \in Nat, s <= t, Ordered(q, s)
    PROVE  Ordered(q, t)
  <1>1. \A i \in 1..Len(q) : q[i].exp \in Nat /\ q[i].exp <= s + Q4WLockTime
    BY Entries DEF Ordered
  <1>2. \A i \in 1..Len(q) : q[i].exp <= t + Q4WLockTime
    BY <1>1, BalancesAssumption
  <1> QED BY <1>2 DEF Ordered

\* Queues nobody touches stay ordered as time goes on.
LEMMA QueuesIdle ==
    ASSUME Books, QueuesOrdered, user_balance' = user_balance, now' \in Nat, now <= now'
    PROVE  QueuesOrdered'
  <1>1. ASSUME NEW p \in Pools, NEW u \in Users PROVE Ordered(user_balance'[p][u].q4w, now')
    BY PoolTyped, WalletTyped, LaterOrdered DEF QueuesOrdered
  <1> QED BY <1>1 DEF QueuesOrdered

\* A zone nobody touches stays within its size as time goes on.
LEMMA ZoneIdle ==
    ASSUME Books, Distinct(reward_zone), Len(reward_zone) <= MaxZoneLen,
           reward_zone' = reward_zone, now' \in Nat, now <= now'
    PROVE  Distinct(reward_zone)' /\ (Len(reward_zone) <= MaxZoneLen)'
  <1>1. Len(reward_zone) \in Nat /\ now \in Nat
    BY ZoneTyped, WalletTyped
  <1>2. Len(reward_zone') <= ZoneSize + now' \div ZoneGrowth
    <2> DEFINE s == ZoneSize + now \div ZoneGrowth
               t == ZoneSize + now' \div ZoneGrowth
    <2>1. s \in Nat /\ t \in Nat /\ s <= t /\ Len(reward_zone) <= s
      BY <1>1, ZoneLenTyped DEF MaxZoneLen
    <2> HIDE DEF s, t
    <2>2. Len(reward_zone) <= t
      BY <1>1, <2>1
    <2> QED BY <2>2 DEF t
  <1> QED BY <1>2 DEF Distinct, MaxZoneLen

\* A step of one pool's and one user's funds.
LEMMA FundStepStanding ==
    ASSUME Books, Standing, NEW p \in Pools, NEW u \in Users,
           \E pool, ub : FundStep(p, u, pool, ub),
           UNCHANGED <<now, deployed, reward_zone, emis_config>>
    PROVE  Standing'
  <1>1. PICK pool, ub : FundStep(p, u, pool, ub)
    OBVIOUS
  <1>2. /\ pool_balance' = [pool_balance EXCEPT ![p] = pool]
        /\ user_balance' = [user_balance EXCEPT ![p] = [@ EXCEPT ![u] = ub]]
        /\ Ordered(user_balance[p][u].q4w, now) => Ordered(ub.q4w, now)
        /\ pool_balance[p] = EmptyPool => p \in deployed \/ pool = EmptyPool
    BY <1>1 DEF FundStep
  <1>3. /\ pool_balance \in [Pools -> PoolBalance] /\ now \in Nat /\ now <= now
        /\ user_balance \in [Pools -> [Users -> UserBalance]]
    BY WalletTyped
  <1>4. ASSUME NEW q \in Pools, NEW v \in Users PROVE Ordered(user_balance'[q][v].q4w, now')
    <2>1. CASE q = p /\ v = u
      <3>1. user_balance'[q][v] = ub
        BY <1>2, <1>3, <2>1
      <3> QED BY <1>2, <3>1 DEF Standing, QueuesOrdered
    <2>2. CASE ~ (q = p /\ v = u)
      <3>1. user_balance'[q][v] = user_balance[q][v]
        BY <1>2, <1>3, <2>2
      <3> QED BY <3>1 DEF Standing, QueuesOrdered
    <2> QED BY <2>1, <2>2
  <1>5. ASSUME NEW q \in Pools PROVE q \in deployed \/ Fresh(q)'
    <2>1. q \in deployed \/ Fresh(q)
      BY DEF Standing, OnlyDeployed
    <2>2. CASE q = p
      BY <1>2, <1>3, <2>1, <2>2 DEF Fresh
    <2>3. CASE q # p
      BY <1>2, <1>3, <2>1, <2>3 DEF Fresh
    <2> QED BY <2>2, <2>3
  <1>6. QueuesOrdered' /\ OnlyDeployed'
    BY <1>4, <1>5 DEF QueuesOrdered, OnlyDeployed
  <1>7. Distinct(reward_zone)' /\ (Len(reward_zone) <= MaxZoneLen)'
    BY <1>3, ZoneIdle DEF Standing
  <1> QED BY <1>6, <1>7 DEF Standing

\* A step that touches neither funds nor zone keeps the standing.
LEMMA OthersStanding ==
    ASSUME Books, Standing, UNCHANGED <<pool_balance, user_balance, reward_zone, emis_config>>,
           now' \in Nat, now <= now', deployed \subseteq deployed'
    PROVE  Standing'
  <1>1. QueuesOrdered'
    BY QueuesIdle DEF Standing
  <1>2. Distinct(reward_zone)' /\ (Len(reward_zone) <= MaxZoneLen)'
    BY ZoneIdle DEF Standing
  <1>3. OnlyDeployed'
    BY DEF Standing, OnlyDeployed, Fresh
  <1> QED BY <1>1, <1>2, <1>3 DEF Standing

\* A claim adds shares to no queue and to no pool without emissions.
LEMMA ClaimStanding ==
    ASSUME Books, Standing, NEW list \in Seq(Pools), NEW from \in Users, NEW to \in Users,
           NEW out \in Nat, Claim(list, from, to, out)
    PROVE  Standing'
  <1>1. now' = now /\ UNCHANGED <<deployed, emis_config, reward_zone>>
        /\ \A p \in ToSet(list) : CanUpdateEmissions(p)
    BY DEF Claim, zone
  <1>2. now \in Nat /\ now <= now /\ deployed \subseteq deployed
    BY WalletTyped
  <1>3. CASE Total(Claims(list, from)) = 0
    <2>1. UNCHANGED <<funds, blnd>>
      BY <1>1, <1>3, ClaimsTyped, Zenon DEF Claim
    <2> QED BY <1>1, <1>2, <2>1, OthersStanding DEF funds
  <1>4. CASE Total(Claims(list, from)) # 0
    <2> DEFINE D == Deposits(list, from, out)
               M == Mints(list, from, out)
               c == Total(Claims(list, from))
    <2>1. /\ D \in [Pools -> Nat] /\ M \in [Pools -> Nat] /\ c \in Nat \ {0}
          /\ pool_balance' = [p \in Pools |-> DepositInto(pool_balance[p], D[p], M[p])]
          /\ user_balance' = [p \in Pools |-> [user_balance[p] EXCEPT ![to].shares = @ + M[p]]]
      <3>1. c \in Nat \ {0}
        BY <1>1, <1>4, ClaimsTyped
      <3>2. /\ D \in [Pools -> Nat] /\ M \in [Pools -> Nat]
            /\ pool_balance' = [p \in Pools |-> DepositInto(pool_balance[p], D[p], M[p])]
            /\ user_balance' = [p \in Pools |-> [user_balance[p] EXCEPT ![to].shares = @ + M[p]]]
        BY <1>4, ClaimFunds
      <3> QED BY <3>1, <3>2
    <2>2. ASSUME NEW p \in Pools, Fresh(p) PROVE Fresh(p)'
      <3>1. pool_balance[p] = EmptyPool /\ emis_config[p] = None /\ p \notin ToSet(reward_zone)
        BY <2>2 DEF Fresh
      <3>2. ShareOf(list, p, from) = 0
        BY <3>1 DEF ShareOf, ClaimOf
      <3>3. D[p] = 0
        <4>1. MulFloor(out, 0, c) = 0
          <5>1. out * 0 = 0 /\ 0 \div c = 0
            BY <2>1
          <5> QED BY <5>1 DEF MulFloor
        <4> QED BY <3>2, <4>1 DEF Deposits
      <3>4. M[p] = 0
        BY <3>1, <3>3 DEF Mints, ConvertToShares, EmptyPool
      <3> HIDE DEF D, M, c
      <3>5. pool_balance'[p] = EmptyPool
        BY <2>1, <3>1, <3>3, <3>4 DEF DepositInto, EmptyPool
      <3> QED BY <1>1, <3>1, <3>5 DEF Fresh
    <2> HIDE DEF D, M, c
    <2>3. ASSUME NEW p \in Pools, NEW u \in Users
          PROVE  Ordered(user_balance'[p][u].q4w, now')
      <3>1. user_balance[p] \in [Users -> UserBalance]
        BY PoolTyped
      <3>2. user_balance'[p] = [user_balance[p] EXCEPT ![to].shares = @ + M[p]]
        BY <2>1
      <3>3. user_balance'[p][u].q4w = user_balance[p][u].q4w
        BY <3>1, <3>2 DEF UserBalance
      <3> QED BY <1>1, <3>3 DEF Standing, QueuesOrdered
    <2>4. QueuesOrdered' /\ OnlyDeployed'
      BY <1>1, <2>2, <2>3 DEF QueuesOrdered, OnlyDeployed, Standing
    <2>5. Distinct(reward_zone)' /\ (Len(reward_zone) <= MaxZoneLen)'
      BY <1>1, <1>2, ZoneIdle DEF Standing
    <2> QED BY <2>4, <2>5 DEF Standing
  <1> QED BY <1>3, <1>4

\* A pool above the threshold has tokens.
LEMMA ThresholdFunded ==
    ASSUME Books, NEW p \in Pools, AboveThreshold(p)
    PROVE  pool_balance[p] # EmptyPool
  <1>1. SUFFICES ASSUME pool_balance[p].tokens = 0 PROVE FALSE
    BY DEF EmptyPool
  <1>2. Scalar7 \in Nat \ {0} /\ ThresholdPC \in Nat \ {0}
    BY BalancesAssumption, BackstopAssumption
  <1>3. \A x \in Nat : MulFloor(0, x, Scalar7) \div Scalar7 = 0
    <2>1. ASSUME NEW x \in Nat PROVE MulFloor(0, x, Scalar7) \div Scalar7 = 0
      <3>1. 0 * x = 0 /\ 0 \div Scalar7 = 0
        BY <1>2
      <3> QED BY <3>1 DEF MulFloor
    <2> QED BY <2>1
  <1>4. token_value[1] \in Nat /\ token_value[2] \in Nat
    BY DEF Books, TypeOK
  <1>5. 0 * 0 * 0 * 0 * 0 >= ThresholdPC
    BY <1>1, <1>3, <1>4, Zenon DEF AboveThreshold
  <1> QED BY <1>2, <1>5

\* A pool enters the zone once, at its front or in the place of another.
LEMMA AddRewardStanding ==
    ASSUME Books, Standing, NEW p \in Pools, NEW q \in Pools, AddReward(p, q)
    PROVE  Standing'
  <1> DEFINE zone1 == reward_zone
             zone2 == reward_zone'
             n == Len(reward_zone)
  <1>1. /\ p \notin ToSet(zone1) /\ AboveThreshold(p)
        /\ UNCHANGED <<now, deployed, pool_balance, user_balance, emis_config>>
        /\ \/ n < MaxZoneLen /\ zone2 = <<p>> \o zone1
           \/ \E i \in DOMAIN zone1 : zone2 = [zone1 EXCEPT ![i] = p]
    BY DEF AddReward, MayEnterZone, funds, emissions
  <1>2. /\ zone1 \in Seq(Pools) /\ n \in Nat /\ DOMAIN zone1 = 1..n /\ n = Len(zone1)
        /\ Distinct(zone1) /\ n <= MaxZoneLen /\ MaxZoneLen \in Nat
        /\ now \in Nat /\ now <= now
    <2>1. now \in Nat /\ now <= now
      BY WalletTyped
    <2> QED BY <2>1, ZoneTyped, ZoneLenTyped DEF Books, TypeOK, Standing, MaxZoneLen
  <1>3. ToSet(zone1) = {zone1[i] : i \in 1..n}
    BY <1>2 DEF ToSet
  <1>4. p \in deployed
    BY <1>1, ThresholdFunded DEF Standing, OnlyDeployed, Fresh
  <1>5. QueuesOrdered'
    BY <1>1, <1>2, QueuesIdle DEF Standing
  <1>6. MaxZoneLen' = MaxZoneLen
    BY <1>1 DEF MaxZoneLen
  <1> HIDE DEF zone1, n
  <1>7. Len(zone2) <= MaxZoneLen /\ Distinct(zone2) /\ ToSet(zone2) \subseteq ToSet(zone1) \cup {p}
    <2>1. CASE n < MaxZoneLen /\ zone2 = <<p>> \o zone1
      <3>1. /\ Len(zone2) = 1 + n /\ DOMAIN zone2 = 1..(n + 1) /\ zone2[1] = p
            /\ \A i \in 1..n : zone2[i + 1] = zone1[i]
        BY <1>2, <2>1
      <3> HIDE DEF zone2
      <3>2. \A i \in 1..(n + 1) : i = 1 \/ (i # 1 /\ i - 1 \in 1..n /\ zone2[i] = zone1[i - 1])
        <4>1. \A i \in 1..(n + 1) : i # 1 => i - 1 \in 1..n /\ i - 1 + 1 = i
          BY <1>2
        <4> QED BY <3>1, <4>1
      <3>3. \A i \in 1..n : zone1[i] # p
        BY <1>1, <1>3
      <3>4. ASSUME NEW i \in 1..(n + 1), NEW j \in 1..(n + 1), zone2[i] = zone2[j] PROVE i = j
        <4>1. CASE i = 1 \/ j = 1
          BY <3>1, <3>2, <3>3, <3>4, <4>1
        <4>2. CASE i # 1 /\ j # 1
          <5>1. i - 1 \in 1..n /\ j - 1 \in 1..n /\ zone1[i - 1] = zone1[j - 1]
            BY <3>2, <3>4, <4>2
          <5>2. i - 1 = j - 1
            BY <1>2, <5>1 DEF Distinct
          <5> QED BY <5>2
        <4> QED BY <4>1, <4>2
      <3>5. ToSet(zone2) \subseteq ToSet(zone1) \cup {p}
        <4>1. ToSet(zone2) = {zone2[i] : i \in 1..(n + 1)}
          BY <3>1 DEF ToSet
        <4>2. \A i \in 1..(n + 1) : zone2[i] = p \/ zone2[i] \in ToSet(zone1)
          BY <1>3, <3>1, <3>2
        <4> QED BY <4>1, <4>2
      <3>6. Len(zone2) <= MaxZoneLen
        BY <1>2, <2>1, <3>1
      <3> QED BY <3>1, <3>4, <3>5, <3>6 DEF Distinct
    <2>2. CASE \E i \in DOMAIN zone1 : zone2 = [zone1 EXCEPT ![i] = p]
      <3>1. PICK k \in 1..n : zone2 = [zone1 EXCEPT ![k] = p]
        BY <1>2, <2>2
      <3>2. /\ Len(zone2) = n /\ DOMAIN zone2 = 1..n /\ zone2[k] = p
            /\ \A i \in 1..n : i # k => zone2[i] = zone1[i]
        BY <1>2, <3>1, ExceptSeq
      <3> HIDE DEF zone2
      <3>3. \A i \in 1..n : zone1[i] # p
        BY <1>1, <1>3
      <3>4. \A i, j \in 1..n : zone2[i] = zone2[j] => i = j
        BY <1>2, <3>2, <3>3 DEF Distinct
      <3>5. ToSet(zone2) \subseteq ToSet(zone1) \cup {p}
        <4>1. ToSet(zone2) = {zone2[i] : i \in 1..n}
          BY <3>2 DEF ToSet
        <4>2. \A i \in 1..n : zone2[i] = p \/ zone2[i] \in ToSet(zone1)
          BY <1>3, <3>2
        <4> QED BY <4>1, <4>2
      <3> QED BY <1>2, <3>2, <3>4, <3>5 DEF Distinct
    <2> QED BY <1>1, <2>1, <2>2
  <1>8. OnlyDeployed'
    <2>1. \A x \in Pools : x \in deployed \/ Fresh(x)
      BY DEF Standing, OnlyDeployed
    <2>2. ASSUME NEW x \in Pools, x \notin deployed PROVE Fresh(x)'
      BY <1>1, <1>4, <1>7, <2>1, <2>2 DEF Fresh, zone1
    <2> QED BY <1>1, <2>2 DEF OnlyDeployed
  <1> QED BY <1>5, <1>6, <1>7, <1>8 DEF Standing, Distinct

\* gulp_emissions gives emissions to pools of the zone only.
LEMMA GulpStanding ==
    ASSUME Books, Standing, GulpEmissions
    PROVE  Standing'
  <1>1. UNCHANGED <<now, deployed, pool_balance, user_balance, reward_zone>>
        /\ emis_config' = [p \in Pools |-> IF InZone(p) THEN Stream(p) ELSE emis_config[p]]
    <2>1. emis_config' = [p \in Pools |-> IF InZone(p) THEN Stream(p) ELSE emis_config[p]]
      BY GulpChanges
    <2> QED BY <2>1 DEF GulpEmissions, funds
  <1>2. now \in Nat /\ now <= now
    BY WalletTyped
  <1>3. QueuesOrdered' /\ Distinct(reward_zone)' /\ (Len(reward_zone) <= MaxZoneLen)'
    BY <1>1, <1>2, QueuesIdle, ZoneIdle DEF Standing
  <1>4. ASSUME NEW p \in Pools, Fresh(p) PROVE Fresh(p)'
    BY <1>1, <1>4 DEF Fresh, InZone
  <1>5. OnlyDeployed'
    BY <1>1, <1>4 DEF Standing, OnlyDeployed
  <1> QED BY <1>3, <1>5 DEF Standing

\* The standing holds when the backstop is initialized.
LEMMA StandingFirst == Init => Standing
  <1> SUFFICES ASSUME Init PROVE Standing
    OBVIOUS
  <1>0. Books
    BY BooksFirst
  <1>1. QueuesOrdered
    <2>1. \A p \in Pools, u \in Users : user_balance[p][u].q4w = <<>>
      BY DEF Init, EmptyUser
    <2>2. Ordered(<<>>, now)
      BY BalancesAssumption DEF Ordered
    <2> QED BY <2>1, <2>2 DEF QueuesOrdered
  <1>2. OnlyDeployed
    BY DEF Init, OnlyDeployed, Fresh, ToSet
  <1>3. Distinct(reward_zone)
    BY DEF Init, Distinct
  <1>4. Len(reward_zone) <= MaxZoneLen
    <2>1. now \in Nat /\ now <= now
      BY <1>0, WalletTyped
    <2>2. MaxZoneLen \in Nat /\ reward_zone = <<>>
      BY <2>1, ZoneLenTyped DEF Init, MaxZoneLen
    <2> QED BY <2>2
  <1> QED BY <1>1, <1>2, <1>3, <1>4 DEF Standing

\* Every step keeps the standing: one case per operation.
LEMMA StandingStep == Books /\ Standing /\ [Next]_vars => Standing'
  <1> SUFFICES ASSUME Books, Standing, [Next]_vars PROVE Standing'
    OBVIOUS
  <1>0. now \in Nat /\ now <= now /\ deployed \subseteq deployed
    BY WalletTyped
  <1>1. CASE UNCHANGED vars
    BY <1>0, <1>1, OthersStanding DEF vars, funds, emissions, zone
  <1>2. ASSUME NEW p \in Pools, Deploy(p) \/ GulpPoolEmissions(p) PROVE Standing'
    <2>1. /\ UNCHANGED <<now, pool_balance, user_balance, reward_zone, emis_config>>
          /\ deployed \subseteq deployed'
      BY <1>2 DEF Deploy, GulpPoolEmissions, funds, emissions, zone
    <2> QED BY <1>0, <2>1, OthersStanding
  <1>3. ASSUME NEW p \in Pools, NEW u \in Users, NEW amount \in Nat,
               Deposit(u, p, amount) \/ QueueWithdrawal(u, p, amount) \/ DequeueWithdrawal(u, p, amount)
        PROVE  Standing'
    <2>1. UNCHANGED <<now, deployed, reward_zone, emis_config>>
      BY <1>3 DEF Deposit, QueueWithdrawal, DequeueWithdrawal, UpdateEmissions, zone
    <2>2. \E pool, ub : FundStep(p, u, pool, ub)
      BY <1>3, DepositStep, QueueStep, DequeueStep
    <2> QED BY <2>1, <2>2, FundStepStanding
  <1>4. ASSUME NEW p \in Pools, NEW u \in Users, NEW amount \in Nat,
               Withdraw(u, p, amount) \/ Draw(p, amount, u) \/ Donate(u, p, amount)
        PROVE  Standing'
    <2>1. UNCHANGED <<now, deployed, reward_zone, emis_config>>
      BY <1>4 DEF Withdraw, Draw, Donate, emissions, zone
    <2>2. \E pool, ub : FundStep(p, u, pool, ub)
      BY <1>4, WithdrawStep, DrawStep, DonateStep
    <2> QED BY <2>1, <2>2, FundStepStanding
  <1>5. ASSUME NEW list \in ClaimLists, NEW pair \in Recipients, NEW out \in CometOut,
               Claim(list, pair[1], pair[2], out)
        PROVE  Standing'
    <2>1. list \in Seq(Pools) /\ pair[1] \in Users /\ pair[2] \in Users /\ out \in Nat
      BY AmountsTyped
    <2> QED BY <1>5, <2>1, ClaimStanding
  <1>6. ASSUME NEW p \in Pools, NEW q \in Pools, AddReward(p, q) PROVE Standing'
    BY <1>6, AddRewardStanding
  <1>7. ASSUME NEW value \in TokenValues, UpdateTknVal(value) PROVE Standing'
    BY <1>0, <1>7, OthersStanding DEF UpdateTknVal, funds, emissions
  <1>8. ASSUME NEW p \in Pools, PoolPaysOut(p, allowance[p]) PROVE Standing'
    BY <1>0, <1>8, OthersStanding DEF PoolPaysOut, funds, emissions, zone
  <1>9. ASSUME GulpEmissions PROVE Standing'
    BY <1>9, GulpStanding
  <1>10. ASSUME EmitterDistributes \/ Tick PROVE Standing'
    <2>1. UNCHANGED <<deployed, pool_balance, user_balance, reward_zone, emis_config>>
          /\ now' \in Nat /\ now <= now'
      BY <1>0, <1>10 DEF EmitterDistributes, Tick, funds, emissions, zone
    <2> QED BY <2>1, OthersStanding
  <1> QED BY <1>1, <1>2, <1>3, <1>4, <1>5, <1>6, <1>7, <1>8, <1>9, <1>10, AmountsTyped DEF Next

\* The inductive invariant of the queues, the factory's pools and the zone.
LEMMA StandingAlways == Spec => [](Books /\ Standing)
  <1>1. Init => Books /\ Standing
    BY BooksFirst, StandingFirst
  <1>2. Books /\ Backed /\ Standing /\ [Next]_vars => (Books /\ Standing)'
    BY BooksStep, StandingStep
  <1> QED BY <1>1, <1>2, BooksAlways, PTL DEF Spec

\* A user's queue stays ordered by expiration, whatever entries withdrawals split.
THEOREM QueueKeptOrdered == Spec => []QueueOrdered
  <1>1. Books /\ Standing => QueueOrdered
    BY StandingSays DEF Standing
  <1> QED BY <1>1, StandingAlways, PTL

\* Only pools of the factory hold shares or tokens or receive emissions.
THEOREM OnlyDeployedFunded == Spec => []FundedPoolsDeployed
  <1>1. Books /\ Standing => FundedPoolsDeployed
    BY StandingSays DEF Standing
  <1> QED BY <1>1, StandingAlways, PTL

\* The reward zone lists no pool twice and never outgrows its size.
THEOREM ZoneKept == Spec => []ZoneWellFormed
  <1>1. Books /\ Standing => ZoneWellFormed
    BY StandingSays DEF Standing
  <1> QED BY <1>1, StandingAlways, PTL
-----------------------------------------------------------------------------
\* The rate of tokens to shares does not fall from one balance to the other.
Fair(old, new) == old.shares > 0 /\ new.shares > 0 =>
                    new.tokens * old.shares >= old.tokens * new.shares

\* A deposit whose shares are worth no more than its tokens is fair.
LEMMA DepositFair ==
    ASSUME NEW pool \in PoolBalance, NEW n \in Nat, NEW s \in Nat,
           pool.shares > 0 => s * pool.tokens <= n * pool.shares
    PROVE  Fair(pool, DepositInto(pool, n, s))
  <1> DEFINE T == pool.tokens
             S == pool.shares
             new == DepositInto(pool, n, s)
  <1>1. T \in Nat /\ S \in Nat
    BY DEF PoolBalance
  <1>2. new.tokens = T + n /\ new.shares = S + s
    BY PoolChanges
  <1> HIDE DEF T, S, new
  <1>3. (T + n) * S = T * S + n * S /\ T * (S + s) = T * S + s * T
    BY <1>1
  <1>4. T * S \in Nat /\ n * S \in Nat /\ s * T \in Nat
    BY <1>1, ProductNat
  <1>5. s * T <= n * S => (T + n) * S >= T * (S + s)
    BY <1>3, <1>4
  <1> QED BY <1>2, <1>5 DEF Fair, T, S, new

\* A withdrawal whose tokens are worth no more than its shares is fair.
LEMMA WithdrawFair ==
    ASSUME NEW pool \in PoolBalance, NEW n \in Nat, NEW s \in Nat, CanWithdraw(pool, n, s),
           pool.shares > 0 => n * pool.shares <= s * pool.tokens
    PROVE  Fair(pool, WithdrawFrom(pool, n, s))
  <1> DEFINE T == pool.tokens
             S == pool.shares
             new == WithdrawFrom(pool, n, s)
  <1>1. T \in Nat /\ S \in Nat
    BY DEF PoolBalance
  <1>2. new.tokens = T - n /\ new.shares = S - s
    BY PoolChanges
  <1> HIDE DEF T, S, new
  <1>3. (T - n) * S = T * S - n * S /\ T * (S - s) = T * S - s * T
    BY <1>1
  <1>4. T * S \in Nat /\ n * S \in Nat /\ s * T \in Nat
    BY <1>1, ProductNat
  <1>5. n * S <= s * T => (T - n) * S >= T * (S - s)
    BY <1>3, <1>4
  <1> QED BY <1>2, <1>5 DEF Fair, T, S, new

\* A balance whose shares and tokens stay is fair.
LEMMA StayFair ==
    ASSUME NEW old \in PoolBalance, NEW new, new.shares = old.shares, new.tokens = old.tokens
    PROVE  Fair(old, new)
  <1>1. old.tokens \in Nat /\ old.shares \in Nat
    BY DEF PoolBalance
  <1>2. old.tokens * old.shares >= old.tokens * old.shares
    BY <1>1
  <1> QED BY <1>2 DEF Fair

\* The share value of every pool but one stays when only that one changes.
LEMMA OthersFair ==
    ASSUME Books, NEW p \in Pools, NEW pool, pool_balance' = [pool_balance EXCEPT ![p] = pool],
           Fair(pool_balance[p], pool)
    PROVE  \A q \in Pools : Fair(pool_balance[q], pool_balance'[q])
  <1>1. pool_balance \in [Pools -> PoolBalance]
    BY WalletTyped
  <1>2. ASSUME NEW q \in Pools PROVE Fair(pool_balance[q], pool_balance'[q])
    <2>1. CASE q = p
      BY <1>1, <2>1
    <2>2. CASE q # p
      <3>1. pool_balance'[q] = pool_balance[q] /\ pool_balance[q] \in PoolBalance
        BY <1>1, <2>2
      <3> QED BY <3>1, StayFair
    <2> QED BY <2>1, <2>2
  <1> QED BY <1>2

\* Every operation but a draw is fair to the shares there are.
LEMMA FundsFair ==
    ASSUME Books, NEW p \in Pools, NEW u \in Users, NEW n \in Nat,
           \/ Deposit(u, p, n) \/ QueueWithdrawal(u, p, n) \/ DequeueWithdrawal(u, p, n)
           \/ Withdraw(u, p, n) \/ Donate(u, p, n)
    PROVE  \A q \in Pools : Fair(pool_balance[q], pool_balance'[q])
  <1> DEFINE old == pool_balance[p]
  <1>1. old \in PoolBalance /\ old.tokens \in Nat /\ old.shares \in Nat
    BY PoolTyped
  <1>2. CASE Deposit(u, p, n)
    <2>1. CanConvertToShares(old)
          /\ pool_balance' = [pool_balance EXCEPT ![p] = DepositInto(old, n, ConvertToShares(old, n))]
      BY <1>2 DEF Deposit
    <2> HIDE DEF old
    <2>2. Fair(old, DepositInto(old, n, ConvertToShares(old, n)))
      BY <1>1, <2>1, Exchange, DepositFair
    <2> QED BY <2>1, <2>2, OthersFair DEF old
  <1>3. CASE QueueWithdrawal(u, p, n)
    <2>1. pool_balance' = [pool_balance EXCEPT ![p] = [old EXCEPT !.q4w = @ + n]]
      BY <1>3 DEF QueueWithdrawal
    <2>2. Fair(old, [old EXCEPT !.q4w = @ + n])
      <3>1. [old EXCEPT !.q4w = @ + n].shares = old.shares
            /\ [old EXCEPT !.q4w = @ + n].tokens = old.tokens
        BY <1>1 DEF PoolBalance
      <3> HIDE DEF old
      <3> QED BY <1>1, <3>1, StayFair
    <2> HIDE DEF old
    <2> QED BY <2>1, <2>2, OthersFair DEF old
  <1>4. CASE DequeueWithdrawal(u, p, n)
    <2>1. pool_balance' = [pool_balance EXCEPT ![p] = [old EXCEPT !.q4w = @ - n]]
      BY <1>4 DEF DequeueWithdrawal
    <2>2. Fair(old, [old EXCEPT !.q4w = @ - n])
      <3>1. [old EXCEPT !.q4w = @ - n].shares = old.shares
            /\ [old EXCEPT !.q4w = @ - n].tokens = old.tokens
        BY <1>1 DEF PoolBalance
      <3> HIDE DEF old
      <3> QED BY <1>1, <3>1, StayFair
    <2> HIDE DEF old
    <2> QED BY <2>1, <2>2, OthersFair DEF old
  <1>5. CASE Withdraw(u, p, n)
    <2> DEFINE out == ConvertToTokens(old, n)
    <2>1. /\ CanWithdraw(old, out, n)
          /\ pool_balance' = [pool_balance EXCEPT ![p] = WithdrawFrom(old, out, n)]
      BY <1>5 DEF Withdraw
    <2> HIDE DEF old
    <2>2. Fair(old, WithdrawFrom(old, out, n))
      BY <1>1, <2>1, Exchange, WithdrawFair
    <2> QED BY <2>1, <2>2, OthersFair DEF old
  <1>6. CASE Donate(u, p, n)
    <2>1. pool_balance' = [pool_balance EXCEPT ![p] = DepositInto(old, n, 0)]
      BY <1>6 DEF Donate
    <2> HIDE DEF old
    <2>2. 0 * old.tokens <= n * old.shares
      <3>1. 0 * old.tokens = 0 /\ n * old.shares \in Nat
        BY <1>1, ProductNat
      <3> QED BY <3>1
    <2>3. Fair(old, DepositInto(old, n, 0))
      BY <1>1, <2>2, DepositFair
    <2> QED BY <2>1, <2>3, OthersFair DEF old
  <1> QED BY <1>2, <1>3, <1>4, <1>5, <1>6

\* A claim pays for the shares it adds to each pool of its list.
LEMMA ClaimFair ==
    ASSUME Books, NEW list \in Seq(Pools), NEW from \in Users, NEW to \in Users, NEW out \in Nat,
           Claim(list, from, to, out)
    PROVE  \A q \in Pools : Fair(pool_balance[q], pool_balance'[q])
  <1> SUFFICES ASSUME NEW q \in Pools PROVE Fair(pool_balance[q], pool_balance'[q])
    OBVIOUS
  <1>1. pool_balance[q] \in PoolBalance
    BY PoolTyped
  <1>2. CASE Total(Claims(list, from)) = 0
    <2>1. pool_balance' = pool_balance
      <3>1. SumFunction([p \in ToSet(list) |-> ClaimOf(list, p, from)]) = 0
        <4>1. \A p \in ToSet(list) : CanUpdateEmissions(p)
          BY DEF Claim
        <4> QED BY <1>2, <4>1, ClaimsTyped
      <3> QED BY <3>1, Zenon DEF Claim, funds
    <2> QED BY <1>1, <2>1, StayFair
  <1>3. CASE Total(Claims(list, from)) # 0
    <2> DEFINE D == Deposits(list, from, out)
               M == Mints(list, from, out)
    <2>1. /\ \A p \in ToSet(list) : CanConvertToShares(pool_balance[p])
          /\ D \in [Pools -> Nat] /\ M \in [Pools -> Nat]
          /\ pool_balance' = [p \in Pools |-> DepositInto(pool_balance[p], D[p], M[p])]
      BY <1>3, ClaimFunds
    <2>2. /\ q \in ToSet(list) => M[q] = ConvertToShares(pool_balance[q], D[q])
          /\ q \notin ToSet(list) => D[q] = 0 /\ M[q] = 0
      BY DEF Deposits, Mints
    <2> HIDE DEF D, M
    <2>3. D[q] \in Nat /\ M[q] \in Nat
      BY <2>1
    <2>4. pool_balance[q].shares > 0 => M[q] * pool_balance[q].tokens <= D[q] * pool_balance[q].shares
      <3>1. CASE q \in ToSet(list)
        <4>1. CanConvertToShares(pool_balance[q]) /\ pool_balance[q].shares \in Nat
          BY <2>1, <3>1, PoolTyped
        <4>2. pool_balance[q].shares # 0 =>
                ConvertToShares(pool_balance[q], D[q]) * pool_balance[q].tokens
                  <= D[q] * pool_balance[q].shares
          BY <1>1, <2>3, <4>1, Exchange
        <4>3. M[q] = ConvertToShares(pool_balance[q], D[q])
          BY <2>2, <3>1
        <4>4. pool_balance[q].shares > 0 => pool_balance[q].shares # 0
          OBVIOUS
        <4> QED BY <4>2, <4>3, <4>4
      <3>2. CASE q \notin ToSet(list)
        <4>1. pool_balance[q].tokens \in Nat /\ pool_balance[q].shares \in Nat
          BY PoolTyped
        <4>2. 0 * pool_balance[q].tokens <= 0 * pool_balance[q].shares
          BY <4>1
        <4> QED BY <2>2, <3>2, <4>2
      <3> QED BY <3>1, <3>2
    <2> QED BY <1>1, <2>1, <2>3, <2>4, DepositFair
  <1> QED BY <1>2, <1>3

\* A draw takes from its pool's tokens what it gives to the receiver.
LEMMA DrawPays ==
    ASSUME Books, NEW p \in Pools, NEW u \in Users, NEW n \in Nat, Draw(p, n, u)
    PROVE  \A q \in Pools :
             LET old == pool_balance[q]  new == pool_balance'[q]
             IN  \/ Fair(old, new)
                 \/ /\ new.shares = old.shares
                    /\ \E v \in Users : wallet'[v] = wallet[v] + old.tokens - new.tokens
  <1>1. /\ pool_balance \in [Pools -> PoolBalance] /\ pool_balance[p] \in PoolBalance
        /\ pool_balance[p].tokens \in Nat /\ pool_balance[p].shares \in Nat
        /\ wallet \in [Users -> Nat] /\ wallet[u] \in Nat
    BY PoolTyped, WalletTyped
  <1>2. /\ CanWithdraw(pool_balance[p], n, 0)
        /\ pool_balance' = [pool_balance EXCEPT ![p] = WithdrawFrom(pool_balance[p], n, 0)]
        /\ wallet' = [wallet EXCEPT ![u] = @ + n]
    BY DEF Draw
  <1>3. ASSUME NEW q \in Pools, q # p PROVE Fair(pool_balance[q], pool_balance'[q])
    <2>1. pool_balance'[q] = pool_balance[q] /\ pool_balance[q] \in PoolBalance
      BY <1>1, <1>2, <1>3
    <2> QED BY <2>1, StayFair
  <1>4. /\ pool_balance'[p].shares = pool_balance[p].shares - 0
        /\ pool_balance'[p].tokens = pool_balance[p].tokens - n
    BY <1>1, <1>2 DEF WithdrawFrom
  <1>5. wallet'[u] = wallet[u] + n
    BY <1>1, <1>2
  <1>6. pool_balance'[p].shares = pool_balance[p].shares
        /\ wallet'[u] = wallet[u] + pool_balance[p].tokens - pool_balance'[p].tokens
    BY <1>1, <1>4, <1>5
  <1> QED BY <1>3, <1>6

\* What a share is worth falls by a draw only: no deposit, withdrawal, donation or
\* claim takes value from the shares of the others, whatever it rounds.
THEOREM ShareValueNeverFalls == Spec => ShareValueKept
  <1> DEFINE Kept == \A p \in Pools :
                       LET old == pool_balance[p]  new == pool_balance'[p]
                       IN  old.shares > 0 /\ new.shares > 0 =>
                             \/ new.tokens * old.shares >= old.tokens * new.shares
                             \/ new.shares = old.shares /\ \E u \in Users : wallet'[u] = wallet[u] + old.tokens - new.tokens
  <1>1. Books /\ [Next]_vars => Kept
    <2> SUFFICES ASSUME Books, [Next]_vars PROVE Kept
      OBVIOUS
    <2>1. (\A q \in Pools : Fair(pool_balance[q], pool_balance'[q])) => Kept
      BY DEF Fair
    <2>2. pool_balance' = pool_balance => Kept
      <3>1. ASSUME pool_balance' = pool_balance, NEW q \in Pools
            PROVE  Fair(pool_balance[q], pool_balance'[q])
        BY <3>1, PoolTyped, StayFair
      <3> QED BY <2>1, <3>1
    <2>3. ASSUME NEW p \in Pools, NEW u \in Users, NEW n \in Nat, Draw(p, n, u) PROVE Kept
      BY <2>3, DrawPays DEF Fair
    <2> HIDE DEF Kept
    <2>4. CASE UNCHANGED vars
      BY <2>2, <2>4 DEF vars, funds
    <2>5. ASSUME NEW p \in Pools, Deploy(p) \/ GulpPoolEmissions(p) PROVE Kept
      BY <2>2, <2>5 DEF Deploy, GulpPoolEmissions, funds
    <2>6. ASSUME NEW p \in Pools, NEW u \in Users, NEW n \in Nat,
                 \/ Deposit(u, p, n) \/ QueueWithdrawal(u, p, n) \/ DequeueWithdrawal(u, p, n)
                 \/ Withdraw(u, p, n) \/ Donate(u, p, n)
          PROVE  Kept
      BY <2>1, <2>6, FundsFair
    <2>7. ASSUME NEW list \in ClaimLists, NEW pair \in Recipients, NEW out \in CometOut,
                 Claim(list, pair[1], pair[2], out)
          PROVE  Kept
      <3>1. list \in Seq(Pools) /\ pair[1] \in Users /\ pair[2] \in Users /\ out \in Nat
        BY AmountsTyped
      <3> QED BY <2>1, <2>7, <3>1, ClaimFair
    <2>8. ASSUME NEW p \in Pools, NEW q \in Pools, AddReward(p, q) PROVE Kept
      BY <2>2, <2>8 DEF AddReward, funds
    <2>9. ASSUME NEW value \in TokenValues, UpdateTknVal(value) PROVE Kept
      BY <2>2, <2>9 DEF UpdateTknVal, funds
    <2>10. ASSUME NEW p \in Pools, PoolPaysOut(p, allowance[p]) PROVE Kept
      BY <2>2, <2>10 DEF PoolPaysOut, funds
    <2>11. ASSUME GulpEmissions \/ EmitterDistributes \/ Tick PROVE Kept
      BY <2>2, <2>11 DEF GulpEmissions, EmitterDistributes, Tick, funds
    <2> QED BY <2>3, <2>4, <2>5, <2>6, <2>7, <2>8, <2>9, <2>10, <2>11, AmountsTyped DEF Next
  <1>2. Books => ([Next]_vars => Kept)
    BY <1>1
  <1> QED BY <1>1, BooksAlways, PTL DEF Spec, ShareValueKept
-----------------------------------------------------------------------------
\* What the users of a pool are due at an index, before it is rounded.
RecordIn(records, u) == IF records[u] = None THEN NoRecord ELSE records[u]
DueAt(index, records, ubs) == [u \in Users |-> Due(RecordIn(records, u), ubs[u].shares, index)]
NotAhead(index, records) ==
    \A u \in Users : records[u] # None => records[u].index <= index
Records == [Users -> UserEmissionData \cup {None}]

\* No user is due less than nothing.
LEMMA DueTyped ==
    ASSUME NEW i \in Nat, NEW records \in Records, NotAhead(i, records),
           NEW ubs \in [Users -> UserBalance]
    PROVE  /\ DueAt(i, records, ubs) \in [Users -> Nat] /\ Total(DueAt(i, records, ubs)) \in Nat
           /\ \A u \in Users :
                 /\ RecordIn(records, u) \in UserEmissionData
                 /\ RecordIn(records, u).index <= i
                 /\ DueAt(i, records, ubs)[u] = Due(RecordIn(records, u), ubs[u].shares, i)
  <1>1. ASSUME NEW u \in Users
        PROVE  /\ RecordIn(records, u) \in UserEmissionData
               /\ RecordIn(records, u).index <= i
               /\ Due(RecordIn(records, u), ubs[u].shares, i) \in Nat
    <2>1. RecordIn(records, u) \in UserEmissionData /\ RecordIn(records, u).index <= i
      BY DEF RecordIn, Records, NotAhead, NoRecord, UserEmissionData
    <2>2. ubs[u].shares \in Nat
      BY DEF UserBalance
    <2> QED BY <2>1, <2>2, AccruedCovered
  <1>2. DueAt(i, records, ubs) \in [Users -> Nat]
    BY <1>1 DEF DueAt
  <1>3. Total(DueAt(i, records, ubs)) \in Nat
    BY <1>2, TotalNat, Finite
  <1> QED BY <1>1, <1>2, <1>3 DEF DueAt

\* With the index rises what is due, by the shares that are not queued.
LEMMA DueRises ==
    ASSUME NEW i \in Nat, NEW j \in Nat, i <= j, NEW records \in Records, NotAhead(i, records),
           NEW ubs \in [Users -> UserBalance], NEW pool \in PoolBalance, Owned(pool, ubs)
    PROVE  Total(DueAt(j, records, ubs))
             = Total(DueAt(i, records, ubs)) + (j - i) * (pool.shares - pool.q4w)
  <1> DEFINE f == DueAt(i, records, ubs)
             h == DueAt(j, records, ubs)
             s == UserShares(ubs)
             c == j - i
             g == [u \in Users |-> c * s[u]]
  <1>1. NotAhead(j, records)
    BY DEF NotAhead, Records, UserEmissionData
  <1>2. /\ f \in [Users -> Nat] /\ h \in [Users -> Nat] /\ s \in [Users -> Nat] /\ c \in Nat
        /\ \A u \in Users : s[u] = ubs[u].shares
    <2>1. s \in [Users -> Nat] /\ \A u \in Users : s[u] = ubs[u].shares
      BY DEF UserShares, UserBalance
    <2>2. f \in [Users -> Nat] /\ h \in [Users -> Nat]
      BY <1>1, DueTyped
    <2>3. c \in Nat
      OBVIOUS
    <2> QED BY <2>1, <2>2, <2>3
  <1>3. ASSUME NEW u \in Users PROVE h[u] = f[u] + c * s[u]
    <2>1. /\ RecordIn(records, u) \in UserEmissionData
          /\ f[u] = Due(RecordIn(records, u), ubs[u].shares, i)
          /\ h[u] = Due(RecordIn(records, u), ubs[u].shares, j)
      BY <1>1, DueTyped
    <2>2. /\ RecordIn(records, u).accrued \in Nat /\ RecordIn(records, u).index \in Nat
          /\ ubs[u].shares \in Nat /\ Scalar7 \in Nat
      BY <2>1, BalancesAssumption DEF UserEmissionData, UserBalance
    <2>3. s[u] = ubs[u].shares
      BY <1>2
    <2> DEFINE n == ubs[u].shares
               k == RecordIn(records, u).index
    <2> HIDE DEF s, f, h, n, k
    <2>4. n \in Nat /\ k \in Nat /\ n * (j - k) = n * (i - k) + (j - i) * n
      BY <2>2 DEF n, k
    <2>5. /\ f[u] = RecordIn(records, u).accrued * Scalar7 + n * (i - k)
          /\ h[u] = RecordIn(records, u).accrued * Scalar7 + n * (j - k)
      BY <2>1 DEF Due, n, k
    <2>6. RecordIn(records, u).accrued * Scalar7 \in Nat /\ n * (i - k) \in Int
      BY <2>2, <2>4, ProductNat
    <2>7. s[u] = n
      BY <2>3 DEF n
    <2> QED BY <2>4, <2>5, <2>6, <2>7
  <1> HIDE DEF f, h, s, c
  <1>4. g \in [Users -> Nat] /\ Total(g) = c * Total(s)
    <2>1. \A u \in Users : c * s[u] \in Nat
      BY <1>2, ProductNat
    <2> QED BY <1>2, <2>1, TotalScales, Finite
  <1>5. \A u \in Users : g[u] = c * s[u]
    OBVIOUS
  <1> HIDE DEF g
  <1>6. Total([u \in Users |-> f[u] + g[u]]) = Total(f) + Total(g)
    BY <1>2, <1>4, TotalAdds, Finite
  <1>7. h = [u \in Users |-> f[u] + g[u]]
    BY <1>2, <1>3, <1>5
  <1>8. Total(s) = pool.shares - pool.q4w
    <2>1. Total(s) \in Nat /\ pool.q4w \in Nat /\ pool.shares = pool.q4w + Total(s)
      BY <1>2, TotalNat, Finite DEF Owned, PoolBalance, s
    <2> QED BY <2>1
  <1> QED BY <1>4, <1>6, <1>7, <1>8 DEF f, h, c

\* A record that is replaced at the current index, and shares changed with it.
LEMMA DueReplaced ==
    ASSUME NEW i \in Nat, NEW records \in Records, NotAhead(i, records),
           NEW ubs \in [Users -> UserBalance], NEW u \in Users, NEW r \in UserEmissionData,
           r.index = i, NEW after \in [Users -> UserBalance],
           \A v \in Users \ {u} : after[v].shares = ubs[v].shares
    PROVE  LET new == [records EXCEPT ![u] = r]
           IN  /\ new \in Records /\ NotAhead(i, new)
               /\ Total(DueAt(i, new, after)) = Total(DueAt(i, records, ubs)) + r.accrued * Scalar7
                     - Due(RecordIn(records, u), ubs[u].shares, i)
  <1> DEFINE new == [records EXCEPT ![u] = r]
             f == DueAt(i, records, ubs)
             h == DueAt(i, new, after)
  <1>1. /\ new \in Records /\ new[u] = r /\ r # None
        /\ \A v \in Users \ {u} : new[v] = records[v]
    BY NoneAssumption DEF Records
  <1> HIDE DEF new
  <1>2. NotAhead(i, new)
    <2>1. \A v \in Users : v = u \/ v \in Users \ {u}
      OBVIOUS
    <2> QED BY <1>1, <2>1 DEF NotAhead, UserEmissionData
  <1>3. f \in [Users -> Nat] /\ h \in [Users -> Nat]
    BY <1>1, <1>2, DueTyped
  <1>4. \A v \in Users \ {u} : h[v] = f[v]
    BY <1>1 DEF DueAt, RecordIn
  <1>5. h[u] = r.accrued * Scalar7 /\ f[u] = Due(RecordIn(records, u), ubs[u].shares, i)
    <2>1. RecordIn(new, u) = r
      BY <1>1 DEF RecordIn
    <2>2. h[u] = Due(r, after[u].shares, i) /\ f[u] = Due(RecordIn(records, u), ubs[u].shares, i)
      BY <2>1 DEF DueAt
    <2>3. after[u].shares \in Nat /\ r.accrued \in Nat /\ Scalar7 \in Nat
      BY BalancesAssumption DEF UserBalance, UserEmissionData
    <2>4. after[u].shares * (i - i) = 0 /\ r.accrued * Scalar7 \in Nat
      BY <2>3, ProductNat
    <2> QED BY <2>2, <2>4 DEF Due
  <1> HIDE DEF f, h
  <1>6. Total(h) = Total(f) + h[u] - f[u]
    BY <1>3, <1>4, TotalFollows, Finite
  <1> QED BY <1>1, <1>2, <1>5, <1>6 DEF f, h, new

-----------------------------------------------------------------------------
\* What a pool's depositors are promised: the rest of its stream and what is due.
Promise(config, data, records, ubs) ==
    IF data = None THEN 0
    ELSE Unstreamed(config, data) * Scalar7 + Total(DueAt(data.index, records, ubs))
PromiseOf(p) == Promise(emis_config[p], emis_data[p], user_emis[p], user_balance[p])

\* What the rest of a stream emits is a number.
LEMMA UnstreamedNat ==
    ASSUME NEW c \in BackstopEmissionConfig, NEW d \in BackstopEmissionsData
    PROVE  Unstreamed(c, d) \in Nat /\ Unstreamed(c, d) * Scalar7 \in Nat
  <1>1. c.eps \in Nat /\ c.expiration \in Nat /\ d.last_time \in Nat /\ Scalar7 \in Nat
    BY BalancesAssumption DEF BackstopEmissionConfig, BackstopEmissionsData
  <1>2. Unstreamed(c, d) \in Nat
    <2>1. CASE d.last_time >= c.expiration
      BY <2>1 DEF Unstreamed
    <2>2. CASE ~ d.last_time >= c.expiration
      <3>1. c.expiration - d.last_time \in Nat
        BY <1>1, <2>2
      <3> QED BY <1>1, <2>2, <3>1, ProductNat DEF Unstreamed
    <2> QED BY <2>1, <2>2
  <1> QED BY <1>1, <1>2, ProductNat

\* An update of the index that settles a user, and pays out x of what it accrued,
\* promises nothing new.
LEMMA PromiseKept ==
    ASSUME NEW c \in BackstopEmissionConfig, NEW d \in BackstopEmissionsData,
           NEW pool \in PoolBalance, pool.q4w <= pool.shares,
           NEW time \in Nat, d.last_time <= time, CanUpdateData(c, d, pool, time),
           NEW e, e = UpdatedData(c, d, pool, time),
           NEW records \in Records, NotAhead(d.index, records),
           NEW ubs \in [Users -> UserBalance], Owned(pool, ubs), NEW u \in Users,
           NEW r \in UserEmissionData, r.index = e.index, NEW x \in Nat,
           (r.accrued + x) * Scalar7 <= Due(RecordIn(records, u), ubs[u].shares, e.index),
           NEW after \in [Users -> UserBalance],
           \A v \in Users \ {u} : after[v].shares = ubs[v].shares
    PROVE  Promise(c, e, [records EXCEPT ![u] = r], after) + x * Scalar7
             <= Promise(c, d, records, ubs)
  <1> DEFINE gain == (e.index - d.index) * (pool.shares - pool.q4w)
             due == Due(RecordIn(records, u), ubs[u].shares, e.index)
             before == Total(DueAt(d.index, records, ubs))
             between == Total(DueAt(e.index, records, ubs))
             finally == Total(DueAt(e.index, [records EXCEPT ![u] = r], after))
             left == Unstreamed(c, d) * Scalar7
             rest == Unstreamed(c, e) * Scalar7
  <1>1. /\ e \in BackstopEmissionsData /\ d.index <= e.index /\ gain + rest <= left
    BY UpdateCovered
  <1>2. e.index \in Nat /\ d.index \in Nat
    BY <1>1 DEF BackstopEmissionsData
  <1>3. NotAhead(e.index, records)
    BY <1>1, <1>2 DEF NotAhead, Records, UserEmissionData
  <1>4. between = before + gain
    BY <1>1, <1>2, DueRises
  <1>5. finally = between + r.accrued * Scalar7 - due
    BY <1>2, <1>3, DueReplaced
  <1>6. left \in Nat /\ rest \in Nat /\ before \in Nat /\ between \in Nat
    BY <1>1, <1>2, <1>3, UnstreamedNat, DueTyped
  <1>7. /\ r.accrued \in Nat /\ Scalar7 \in Nat
        /\ (r.accrued + x) * Scalar7 = r.accrued * Scalar7 + x * Scalar7
        /\ r.accrued * Scalar7 \in Nat /\ x * Scalar7 \in Nat
    BY BalancesAssumption, ProductNat DEF UserEmissionData
  <1>8. due \in Nat
    <2>1. /\ RecordIn(records, u) \in UserEmissionData /\ RecordIn(records, u).index <= e.index
          /\ ubs[u].shares \in Nat
      BY <1>2, <1>3, DueTyped DEF UserBalance
    <2> QED BY <1>2, <2>1, AccruedCovered
  <1>9. /\ Promise(c, e, [records EXCEPT ![u] = r], after) = rest + finally
        /\ Promise(c, d, records, ubs) = left + before
    <2>1. e # None /\ d # None
      BY <1>1, NoneAssumption
    <2> QED BY <2>1 DEF Promise
  <1>10. (r.accrued + x) * Scalar7 <= due
    OBVIOUS
  <1>11. gain \in Int
    BY <1>2 DEF PoolBalance
  <1> HIDE DEF gain, due, before, between, finally, left, rest
  <1>12. finally + x * Scalar7 <= before + gain
    BY <1>4, <1>5, <1>6, <1>7, <1>8, <1>10, <1>11
  <1>13. finally \in Int
    BY <1>5, <1>6, <1>7, <1>8
  <1> QED BY <1>1, <1>6, <1>7, <1>9, <1>11, <1>12, <1>13

\* Nobody is promised less than nothing.
LEMMA PromiseNat ==
    ASSUME NEW c \in BackstopEmissionConfig \cup {None}, NEW d \in BackstopEmissionsData \cup {None},
           c = None <=> d = None, NEW records \in Records, d # None => NotAhead(d.index, records),
           NEW ubs \in [Users -> UserBalance]
    PROVE  Promise(c, d, records, ubs) \in Nat
  <1>1. CASE d = None
    BY <1>1 DEF Promise
  <1>2. CASE d # None
    <2>1. c \in BackstopEmissionConfig /\ d \in BackstopEmissionsData /\ d.index \in Nat
      BY <1>2 DEF BackstopEmissionsData
    <2>2. Unstreamed(c, d) * Scalar7 \in Nat /\ Total(DueAt(d.index, records, ubs)) \in Nat
      BY <1>2, <2>1, UnstreamedNat, DueTyped
    <2> QED BY <1>2, <2>2 DEF Promise
  <1> QED BY <1>1, <1>2

\* What the books say of a pool's emissions.
LEMMA EmissionsKnown ==
    ASSUME Books, NEW p \in Pools
    PROVE  /\ emis_config[p] \in BackstopEmissionConfig \cup {None}
           /\ emis_data[p] \in BackstopEmissionsData \cup {None}
           /\ emis_config[p] = None <=> emis_data[p] = None
           /\ user_emis[p] \in Records
           /\ emis_data[p] # None => /\ emis_data[p].index \in Nat
                                     /\ emis_data[p].last_time <= now
                                     /\ NotAhead(emis_data[p].index, user_emis[p])
           /\ emis_data[p] = None => \A u \in Users : user_emis[p][u] = None
           /\ now \in Nat /\ PromiseOf(p) \in Nat
  <1>1. /\ emis_config[p] \in BackstopEmissionConfig \cup {None}
        /\ emis_data[p] \in BackstopEmissionsData \cup {None}
        /\ user_emis[p] \in [Users -> UserEmissionData \cup {None}]
        /\ now \in Nat /\ Indexed(p)
    BY DEF Books, TypeOK, AllIndexed
  <1>2. /\ emis_config[p] = None <=> emis_data[p] = None
        /\ user_emis[p] \in Records
        /\ emis_data[p] # None => /\ emis_data[p].index \in Nat
                                  /\ emis_data[p].last_time <= now
                                  /\ NotAhead(emis_data[p].index, user_emis[p])
        /\ emis_data[p] = None => \A u \in Users : user_emis[p][u] = None
    BY <1>1 DEF Indexed, Records, NotAhead, BackstopEmissionsData
  <1>3. user_balance[p] \in [Users -> UserBalance]
    BY PoolTyped
  <1>4. PromiseOf(p) \in Nat
    BY <1>1, <1>2, <1>3, PromiseNat DEF PromiseOf
  <1> QED BY <1>1, <1>2, <1>4

\* The same after a step.
LEMMA PromisedLater == ASSUME Books', NEW p \in Pools PROVE PromiseOf(p)' \in Nat
  <1>1. /\ emis_config'[p] \in BackstopEmissionConfig \cup {None}
        /\ emis_data'[p] \in BackstopEmissionsData \cup {None}
        /\ user_emis'[p] \in [Users -> UserEmissionData \cup {None}]
        /\ user_balance'[p] \in [Users -> UserBalance]
        /\ Indexed(p)'
    BY DEF Books, TypeOK, AllIndexed
  <1>2. /\ emis_config'[p] = None <=> emis_data'[p] = None
        /\ user_emis'[p] \in Records
        /\ emis_data'[p] # None => NotAhead(emis_data'[p].index, user_emis'[p])
    BY <1>1 DEF Indexed, Records, NotAhead
  <1>3. Promise(emis_config'[p], emis_data'[p], user_emis'[p], user_balance'[p]) \in Nat
    BY <1>1, <1>2, PromiseNat
  <1> QED BY <1>3 DEF PromiseOf

\* A step that leaves the emissions and the users' shares of a pool alone.
LEMMA PromiseIdle ==
    ASSUME NEW p \in Pools, emis_config'[p] = emis_config[p], emis_data'[p] = emis_data[p],
           user_emis'[p] = user_emis[p],
           \A u \in Users : user_balance'[p][u].shares = user_balance[p][u].shares
    PROVE  PromiseOf(p)' = PromiseOf(p)
  <1>1. \A i, records : DueAt(i, records, user_balance'[p]) = DueAt(i, records, user_balance[p])
    BY DEF DueAt
  <1> QED BY <1>1 DEF PromiseOf, Promise

\* A pool's users lose nothing that was promised when one of them is updated and
\* only its shares change.
LEMMA SettledPromise ==
    ASSUME Books, Books', NEW p \in Pools, NEW u \in Users, UpdateEmissions(p, u),
           \E pool, ub : FundStep(p, u, pool, ub)
    PROVE  \A q \in Pools : PromiseOf(q)' <= PromiseOf(q)
  <1> PICK pool, ub : FundStep(p, u, pool, ub)
    OBVIOUS
  <1>1. /\ user_balance \in [Pools -> [Users -> UserBalance]]
        /\ user_balance[p] \in [Users -> UserBalance]
    BY WalletTyped
  <1>2. /\ user_balance' = [user_balance EXCEPT ![p] = [@ EXCEPT ![u] = ub]]
        /\ ub \in UserBalance
    BY DEF FundStep, Together
  <1>3. /\ CanUpdateEmissions(p)
        /\ emis_data' = [emis_data EXCEPT ![p] = CurrentData(p)]
        /\ emis_config[p] = None => user_emis' = user_emis
        /\ emis_config[p] # None =>
              user_emis' = [user_emis EXCEPT ![p] = [@ EXCEPT ![u] =
                              [index |-> CurrentData(p).index, accrued |-> AccruedTo(p, u)]]]
        /\ emis_config' = emis_config
    BY DEF UpdateEmissions
  <1>4. /\ emis_data \in [Pools -> BackstopEmissionsData \cup {None}]
        /\ user_emis \in [Pools -> [Users -> UserEmissionData \cup {None}]]
    BY DEF Books, TypeOK
  <1>5. ASSUME NEW q \in Pools, q # p PROVE PromiseOf(q)' <= PromiseOf(q)
    <2>1. /\ emis_config'[q] = emis_config[q] /\ emis_data'[q] = emis_data[q]
          /\ user_emis'[q] = user_emis[q] /\ user_balance'[q] = user_balance[q]
      BY <1>1, <1>2, <1>3, <1>4, <1>5
    <2>2. PromiseOf(q)' = PromiseOf(q) /\ PromiseOf(q) \in Nat
      BY <2>1, PromiseIdle, EmissionsKnown
    <2> QED BY <2>2
  <1>6. PromiseOf(p)' <= PromiseOf(p)
    <2>1. CASE emis_config[p] = None
      <3>1. emis_data[p] = None /\ CurrentData(p) = None
        BY <2>1, EmissionsKnown DEF CurrentData
      <3>2. emis_data'[p] = None
        BY <1>3, <1>4, <3>1
      <3> QED BY <3>1, <3>2 DEF PromiseOf, Promise
    <2>2. CASE emis_config[p] # None
      <3> DEFINE c == emis_config[p]
                 d == emis_data[p]
                 e == CurrentData(p)
                 r == [index |-> CurrentData(p).index, accrued |-> AccruedTo(p, u)]
                 ubs == user_balance[p]
                 after == [ubs EXCEPT ![u] = ub]
                 records == user_emis[p]
      <3>1. /\ c \in BackstopEmissionConfig /\ d \in BackstopEmissionsData
            /\ d.last_time <= now /\ now \in Nat
            /\ records \in Records /\ NotAhead(d.index, records)
        BY <2>2, EmissionsKnown
      <3>2. CanUpdateData(c, d, pool_balance[p], now) /\ e = UpdatedData(c, d, pool_balance[p], now)
        BY <1>3, <2>2 DEF CanUpdateEmissions, CurrentData
      <3>3. /\ r \in UserEmissionData /\ r.index = e.index /\ r.accrued \in Nat
            /\ r.accrued * Scalar7 <= Due(RecordIn(records, u), ubs[u].shares, e.index)
        <4>1. /\ e.index \in Nat /\ AccruedTo(p, u) \in Nat
              /\ AccruedTo(p, u) * Scalar7 <= Due(RecordOf(p, u), ubs[u].shares, e.index)
          BY <1>3, <2>2, CurrentTyped
        <4>2. RecordOf(p, u) = RecordIn(records, u)
          BY DEF RecordOf, RecordIn
        <4> QED BY <4>1, <4>2 DEF UserEmissionData
      <3>4. /\ emis_config'[p] = c /\ emis_data'[p] = e
            /\ user_emis'[p] = [records EXCEPT ![u] = r] /\ user_balance'[p] = after
        BY <1>1, <1>2, <1>3, <1>4, <2>2
      <3>5. /\ after \in [Users -> UserBalance]
            /\ \A v \in Users \ {u} : after[v].shares = ubs[v].shares
        BY <1>1, <1>2
      <3>6. /\ pool_balance[p] \in PoolBalance /\ Owned(pool_balance[p], ubs)
            /\ pool_balance[p].q4w <= pool_balance[p].shares
            /\ ubs \in [Users -> UserBalance]
        BY PoolTyped
      <3>7. PromiseOf(p) = Promise(c, d, records, ubs)
            /\ PromiseOf(p)' = Promise(c, e, [records EXCEPT ![u] = r], after)
        BY <3>4 DEF PromiseOf
      <3> HIDE DEF c, d, e, r, ubs, after, records
      <3>8. (r.accrued + 0) * Scalar7 <= Due(RecordIn(records, u), ubs[u].shares, e.index)
        <4>1. r.accrued + 0 = r.accrued
          BY <3>3
        <4> QED BY <3>3, <4>1
      <3>9. Promise(c, e, [records EXCEPT ![u] = r], after) + 0 * Scalar7
              <= Promise(c, d, records, ubs)
        BY <3>1, <3>2, <3>3, <3>5, <3>6, <3>8, PromiseKept
      <3>10. 0 * Scalar7 = 0 /\ PromiseOf(p)' \in Nat
        BY BalancesAssumption, PromisedLater
      <3> QED BY <3>7, <3>9, <3>10
    <2> QED BY <2>1, <2>2
  <1> QED BY <1>5, <1>6

\* A claim pays out what it takes from the promises of each pool of its list, when
\* the claimer is the one who gets the shares.
LEMMA ClaimedPromise ==
    ASSUME Books, Books', NEW list \in Seq(Pools), NEW u \in Users, NEW out \in Nat,
           Claim(list, u, u, out), NEW q \in Pools
    PROVE  PromiseOf(q)' + Claims(list, u)[q] * Scalar7 <= PromiseOf(q)
  <1> DEFINE L == ToSet(list)
             x == Claims(list, u)[q]
             ubs == user_balance[q]
             after == user_balance'[q]
  <1>1. /\ \A p \in L : CanUpdateEmissions(p)
        /\ emis_data' = [p \in Pools |-> IF p \in L THEN CurrentData(p) ELSE emis_data[p]]
        /\ user_emis' = [p \in Pools |->
              IF p \in L /\ emis_config[p] # None
              THEN [user_emis[p] EXCEPT ![u] = [index |-> CurrentData(p).index, accrued |-> 0]]
              ELSE user_emis[p]]
        /\ emis_config' = emis_config
    BY DEF Claim
  <1>2. /\ x = IF q \in L /\ emis_config[q] # None THEN AccruedTo(q, u) ELSE 0
        /\ x \in Nat
    <2>1. x = ClaimOf(list, q, u)
      BY DEF Claims
    <2>2. Claims(list, u) \in [Pools -> Nat]
      BY <1>1, ClaimsTyped
    <2> QED BY <2>1, <2>2 DEF ClaimOf
  <1>3. /\ ubs \in [Users -> UserBalance] /\ after \in [Users -> UserBalance]
        /\ \A v \in Users \ {u} : after[v].shares = ubs[v].shares
        /\ q \notin L => after = ubs
    <2>1. ubs \in [Users -> UserBalance] /\ after \in [Users -> UserBalance]
      BY DEF Books, TypeOK
    <2>2. CASE Total(Claims(list, u)) = 0
      <3>1. SumFunction([p \in ToSet(list) |-> ClaimOf(list, p, u)]) = 0
        BY <1>1, <2>2, ClaimsTyped
      <3>2. user_balance' = user_balance
        BY <3>1, Zenon DEF Claim, funds
      <3> QED BY <2>1, <3>2
    <2>3. CASE Total(Claims(list, u)) # 0
      <3>1. user_balance' = [p \in Pools |-> [user_balance[p] EXCEPT ![u].shares =
                                                @ + Mints(list, u, out)[p]]]
        BY <2>3, ClaimFunds
      <3>2. q \notin L => Mints(list, u, out)[q] = 0
        BY DEF Mints
      <3> DEFINE n == Mints(list, u, out)[q]
      <3>3. after = [ubs EXCEPT ![u].shares = @ + n]
        BY <3>1
      <3> HIDE DEF n, after, ubs
      <3>4. \A v \in Users \ {u} : after[v].shares = ubs[v].shares
        BY <2>1, <3>3
      <3>5. n = 0 => after = ubs
        <4>1. [ubs[u] EXCEPT !.shares = @ + 0] = ubs[u]
          BY <2>1 DEF UserBalance
        <4> QED BY <2>1, <3>3, <4>1
      <3> QED BY <2>1, <3>2, <3>4, <3>5 DEF n
    <2> QED BY <2>2, <2>3
  <1>4. PromiseOf(q) \in Nat /\ PromiseOf(q)' \in Nat /\ Scalar7 \in Nat
    BY EmissionsKnown, PromisedLater, BalancesAssumption
  <1>5. CASE q \notin L
    <2>1. /\ emis_config'[q] = emis_config[q] /\ emis_data'[q] = emis_data[q]
          /\ user_emis'[q] = user_emis[q] /\ x = 0
          /\ \A v \in Users : user_balance'[q][v].shares = user_balance[q][v].shares
      BY <1>1, <1>2, <1>3, <1>5
    <2>2. PromiseOf(q)' = PromiseOf(q)
      BY <2>1, PromiseIdle
    <2> HIDE DEF x
    <2>3. PromiseOf(q)' + x * Scalar7 <= PromiseOf(q)
      <3>1. 0 * Scalar7 = 0
        BY <1>4
      <3> QED BY <1>4, <2>1, <2>2, <3>1
    <2> QED BY <2>3 DEF x
  <1>6. CASE q \in L /\ emis_config[q] = None
    <2>1. emis_data'[q] = None /\ x = 0
      BY <1>1, <1>2, <1>6 DEF CurrentData
    <2>2. PromiseOf(q)' = 0
      BY <2>1 DEF PromiseOf, Promise
    <2> HIDE DEF x
    <2>3. PromiseOf(q)' + x * Scalar7 <= PromiseOf(q)
      <3>1. 0 * Scalar7 = 0
        BY <1>4
      <3> QED BY <1>4, <2>1, <2>2, <3>1
    <2> QED BY <2>3 DEF x
  <1>7. CASE q \in L /\ emis_config[q] # None
    <2> DEFINE c == emis_config[q]
               d == emis_data[q]
               e == CurrentData(q)
               r == [index |-> CurrentData(q).index, accrued |-> 0]
               records == user_emis[q]
    <2>1. /\ c \in BackstopEmissionConfig /\ d \in BackstopEmissionsData
          /\ d.last_time <= now /\ now \in Nat
          /\ records \in Records /\ NotAhead(d.index, records)
      BY <1>7, EmissionsKnown
    <2>2. CanUpdateData(c, d, pool_balance[q], now) /\ e = UpdatedData(c, d, pool_balance[q], now)
      BY <1>1, <1>7 DEF CanUpdateEmissions, CurrentData
    <2>3. /\ r \in UserEmissionData /\ r.index = e.index /\ r.accrued = 0
          /\ x * Scalar7 <= Due(RecordIn(records, u), ubs[u].shares, e.index)
      <3>1. /\ e.index \in Nat /\ AccruedTo(q, u) \in Nat
            /\ AccruedTo(q, u) * Scalar7 <= Due(RecordOf(q, u), ubs[u].shares, e.index)
        BY <1>1, <1>7, CurrentTyped
      <3>2. RecordOf(q, u) = RecordIn(records, u)
        BY DEF RecordOf, RecordIn
      <3>3. x = AccruedTo(q, u)
        BY <1>2, <1>7
      <3> QED BY <3>1, <3>2, <3>3 DEF UserEmissionData
    <2>4. /\ emis_config'[q] = c /\ emis_data'[q] = e
          /\ user_emis'[q] = [records EXCEPT ![u] = r]
      BY <1>1, <1>7
    <2>5. /\ pool_balance[q] \in PoolBalance /\ Owned(pool_balance[q], ubs)
          /\ pool_balance[q].q4w <= pool_balance[q].shares
      BY PoolTyped
    <2>6. PromiseOf(q) = Promise(c, d, records, ubs)
          /\ PromiseOf(q)' = Promise(c, e, [records EXCEPT ![u] = r], after)
      BY <2>4 DEF PromiseOf
    <2> HIDE DEF c, d, e, r, ubs, after, records, x
    <2>7. (r.accrued + x) * Scalar7 <= Due(RecordIn(records, u), ubs[u].shares, e.index)
      <3>1. r.accrued + x = x
        BY <1>2, <2>3
      <3> QED BY <2>3, <3>1
    <2>8. Promise(c, e, [records EXCEPT ![u] = r], after) + x * Scalar7
            <= Promise(c, d, records, ubs)
      BY <1>2, <1>3, <2>1, <2>2, <2>3, <2>5, <2>7, PromiseKept
    <2> QED BY <2>6, <2>8 DEF x
  <1> QED BY <1>5, <1>6, <1>7

\* gulp_emissions promises a pool's depositors no more than the pool's part.
LEMMA GulpedPromise ==
    ASSUME Books, Books', GulpEmissions, NEW q \in Pools
    PROVE  PromiseOf(q)' <= PromiseOf(q) + (IF InZone(q) THEN Part(q, 7) * Scalar7 ELSE 0)
  <1>1. /\ ZoneTokens # 0
        /\ InZone(q) => CanUpdateEmissions(q)
        /\ emis_data'[q] = IF InZone(q) THEN [index |-> IndexAt(q), last_time |-> now] ELSE emis_data[q]
        /\ emis_config'[q] = IF InZone(q) THEN Stream(q) ELSE emis_config[q]
        /\ user_emis' = user_emis
    BY GulpChanges
  <1>2. user_balance' = user_balance
    BY DEF GulpEmissions, funds
  <1>3. PromiseOf(q) \in Nat /\ PromiseOf(q)' \in Nat /\ Scalar7 \in Nat
    BY EmissionsKnown, PromisedLater, BalancesAssumption
  <1>4. CASE ~ InZone(q)
    <2>1. PromiseOf(q)' = PromiseOf(q)
      BY <1>1, <1>2, <1>4, PromiseIdle
    <2> QED BY <1>3, <1>4, <2>1
  <1>5. CASE InZone(q)
    <2> DEFINE c == Stream(q)
               e == [index |-> IndexAt(q), last_time |-> now]
               ubs == user_balance[q]
               records == user_emis[q]
               part == Part(q, 7)
               left == LeftToEmit(q)
               i == IndexAt(q)
               due == Total(DueAt(i, records, ubs))
    <2>1. /\ c \in BackstopEmissionConfig /\ c.eps * Window <= part + left
          /\ c.expiration = now + Window /\ left \in Nat /\ i \in Nat
          /\ emis_config[q] # None => left = Remaining(emis_config[q], now)
      BY <1>1, <1>5, StreamTyped
    <2>2. part \in Nat
      BY <1>1, PartsBounded
    <2>3. now \in Nat /\ records \in Records /\ ubs \in [Users -> UserBalance]
      BY EmissionsKnown, PoolTyped
    <2>4. e \in BackstopEmissionsData /\ e # None
      BY <2>1, <2>3, NoneAssumption DEF BackstopEmissionsData
    <2>5. PromiseOf(q)' = Unstreamed(c, e) * Scalar7 + due
      BY <1>1, <1>2, <1>5, <2>4 DEF PromiseOf, Promise
    <2>6. Unstreamed(c, e) = c.eps * Window
      <3>1. e.last_time = now /\ Window \in Nat \ {0}
        BY BackstopAssumption
      <3>2. ~ now >= now + Window /\ now + Window - now = Window
        BY <2>3, <3>1
      <3>3. c.expiration = now + Window
        BY <2>1
      <3> HIDE DEF c, e
      <3>4. Unstreamed(c, e) = c.eps * (c.expiration - e.last_time)
        BY <3>1, <3>2, <3>3 DEF Unstreamed
      <3>5. c.expiration - e.last_time = Window
        BY <2>3, <3>1, <3>3
      <3> QED BY <3>4, <3>5
    <2> HIDE DEF c, e, part, left
    <2>7. Unstreamed(c, e) * Scalar7 <= part * Scalar7 + left * Scalar7
      <3>1. (part + left) * Scalar7 = part * Scalar7 + left * Scalar7
        BY <1>3, <2>1, <2>2
      <3>2. Unstreamed(c, e) \in Nat
        BY <2>1, <2>4, UnstreamedNat
      <3>3. Unstreamed(c, e) * Scalar7 <= (part + left) * Scalar7
        BY <1>3, <2>1, <2>2, <2>6, <3>2, ProductGrows
      <3> QED BY <3>1, <3>3
    <2>8. left * Scalar7 + due <= PromiseOf(q) /\ due \in Nat
      <3>1. CASE emis_config[q] = None
        <4>1. i = 0 /\ left = 0 /\ \A u \in Users : user_emis[q][u] = None
          BY <3>1, EmissionsKnown DEF IndexAt, LeftToEmit, left
        <4>2. DueAt(i, records, ubs) = [u \in Users |-> 0]
          <5>1. \A u \in Users : ubs[u].shares \in Nat
            BY <2>3 DEF UserBalance
          <5>2. \A u \in Users : Due(NoRecord, ubs[u].shares, 0) = 0
            BY <1>3, <5>1 DEF Due, NoRecord
          <5> QED BY <4>1, <5>2 DEF DueAt, RecordIn
        <4>3. due = 0
          BY <4>2, TotalZero, Finite
        <4> HIDE DEF due
        <4> QED BY <1>3, <4>1, <4>3
      <3>2. CASE emis_config[q] # None
        <4> DEFINE a == emis_config[q]
                   d == emis_data[q]
                   pool == pool_balance[q]
                   n == CurrentData(q)
                   gain == (n.index - d.index) * (pool.shares - pool.q4w)
                   before == Total(DueAt(d.index, records, ubs))
                   old == Unstreamed(a, d) * Scalar7
        <4>1. /\ a \in BackstopEmissionConfig /\ d \in BackstopEmissionsData /\ d # None
              /\ d.last_time <= now /\ NotAhead(d.index, records) /\ d.index \in Nat
          BY <3>2, EmissionsKnown
        <4>2. CanUpdateData(a, d, pool, now) /\ n = UpdatedData(a, d, pool, now) /\ i = n.index
          BY <1>1, <1>5, <3>2 DEF CanUpdateEmissions, CurrentData, IndexAt
        <4>3. /\ pool \in PoolBalance /\ Owned(pool, ubs) /\ pool.q4w <= pool.shares
          BY PoolTyped
        <4>4. left = Remaining(a, now) /\ PromiseOf(q) = old + before
          BY <2>1, <3>2, <4>1 DEF PromiseOf, Promise
        <4> HIDE DEF a, d, pool, n, i, records, ubs
        <4>5. d.index <= n.index /\ gain + Remaining(a, now) * Scalar7 <= old
          BY <2>3, <4>1, <4>2, <4>3, UpdateCovered
        <4>6. due = before + gain
          BY <2>1, <2>3, <4>1, <4>2, <4>3, <4>5, DueRises
        <4>7. NotAhead(i, records)
          BY <2>1, <2>3, <4>1, <4>2, <4>5 DEF NotAhead, Records, UserEmissionData
        <4>8. due \in Nat /\ before \in Nat
          BY <2>1, <2>3, <4>1, <4>7, DueTyped
        <4>9. gain \in Int /\ left * Scalar7 \in Nat /\ old \in Nat
          <5>1. n.index \in Int /\ pool.shares - pool.q4w \in Int
            BY <2>1, <4>2, <4>3 DEF PoolBalance
          <5> QED BY <1>3, <2>1, <4>1, <5>1, UnstreamedNat, ProductNat
        <4> HIDE DEF gain, before, due, old
        <4> QED BY <4>4, <4>5, <4>6, <4>8, <4>9
      <3> QED BY <3>1, <3>2
    <2> HIDE DEF due
    <2>9. part * Scalar7 \in Nat /\ left * Scalar7 \in Nat /\ Unstreamed(c, e) * Scalar7 \in Nat
      BY <1>3, <2>1, <2>2, <2>4, UnstreamedNat, ProductNat
    <2>10. PromiseOf(q)' <= PromiseOf(q) + part * Scalar7
      BY <1>3, <2>5, <2>7, <2>8, <2>9
    <2> QED BY <1>5, <2>10 DEF part
  <1> QED BY <1>4, <1>5

-----------------------------------------------------------------------------
\* The numbers the promises are made of.
LEMMA PromisesTyped ==
    ASSUME Books
    PROVE  /\ pool_emissions \in [Pools -> Nat] /\ allowance \in [Pools -> Nat]
           /\ \A p \in Pools : pool_emissions[p] \in Nat /\ allowance[p] \in Nat
           /\ Scalar7 \in Nat /\ blnd \in Nat /\ now \in Nat
           /\ emitter_last \in Nat /\ last_distribution \in Nat
  <1>1. pool_emissions \in [Pools -> Nat] /\ allowance \in [Pools -> Nat]
    BY DEF Books, TypeOK
  <1>2. blnd \in Nat /\ now \in Nat /\ emitter_last \in Nat /\ last_distribution \in Nat
    BY DEF Books, TypeOK
  <1>3. Scalar7 \in Nat
    BY BalancesAssumption
  <1> QED BY <1>1, <1>2, <1>3

\* What a pool and its depositors are promised, in units of Scalar7.
Promised == [p \in Pools |-> (pool_emissions[p] + allowance[p]) * Scalar7 + PromiseOf(p)]

\* All promises, and what gulp_emissions may still hand out, are covered in BLND.
Funded == Total(Promised) + (emitter_last - last_distribution) * Scalar7 * Scalar7
            <= blnd * Scalar7

\* The promises are numbers, before and after a step.
LEMMA PromisedTyped == ASSUME Books PROVE Promised \in [Pools -> Nat] /\ Total(Promised) \in Nat
  <1>1. ASSUME NEW p \in Pools
        PROVE  (pool_emissions[p] + allowance[p]) * Scalar7 + PromiseOf(p) \in Nat
    <2>1. pool_emissions[p] + allowance[p] \in Nat /\ Scalar7 \in Nat
      BY BalancesAssumption DEF Books, TypeOK
    <2>2. (pool_emissions[p] + allowance[p]) * Scalar7 \in Nat /\ PromiseOf(p) \in Nat
      BY <2>1, ProductNat, EmissionsKnown
    <2> QED BY <2>2
  <1>2. Promised \in [Pools -> Nat]
    BY <1>1 DEF Promised
  <1> QED BY <1>2, TotalNat, Finite

\* The same after a step.
LEMMA PromisedTypedLater ==
    ASSUME Books' PROVE Promised' \in [Pools -> Nat] /\ Total(Promised') \in Nat
  <1>1. ASSUME NEW p \in Pools
        PROVE  (pool_emissions'[p] + allowance'[p]) * Scalar7 + PromiseOf(p)' \in Nat
    <2>1. pool_emissions'[p] + allowance'[p] \in Nat /\ Scalar7 \in Nat
      BY BalancesAssumption DEF Books, TypeOK
    <2>2. (pool_emissions'[p] + allowance'[p]) * Scalar7 \in Nat /\ PromiseOf(p)' \in Nat
      BY <2>1, ProductNat, PromisedLater
    <2> QED BY <2>2
  <1>2. Promised' \in [Pools -> Nat]
    BY <1>1 DEF Promised
  <1> QED BY <1>2, TotalNat, Finite

\* Promises that every pool's shrink by what is paid for it.
LEMMA TotalsPaid ==
    ASSUME NEW f \in [Pools -> Nat], NEW h \in [Pools -> Nat], NEW x \in [Pools -> Nat],
           \A p \in Pools : h[p] + x[p] * Scalar7 <= f[p]
    PROVE  Total(h) + Total(x) * Scalar7 <= Total(f) /\ Total(x) \in Nat
  <1> DEFINE y == [p \in Pools |-> Scalar7 * x[p]]
             s == [p \in Pools |-> h[p] + y[p]]
  <1>1. Scalar7 \in Nat
    BY BalancesAssumption
  <1>2. y \in [Pools -> Nat] /\ \A p \in Pools : y[p] = x[p] * Scalar7
    <2>1. \A p \in Pools : Scalar7 * x[p] \in Nat /\ Scalar7 * x[p] = x[p] * Scalar7
      BY <1>1, ProductNat
    <2> QED BY <2>1
  <1>3. Total(y) = Scalar7 * Total(x)
    BY <1>1, TotalScales, Finite
  <1> HIDE DEF y
  <1>4. Total(s) = Total(h) + Total(y)
    BY <1>2, TotalAdds, Finite
  <1>5. s \in [Pools -> Nat] /\ \A p \in Pools : s[p] <= f[p]
    BY <1>2
  <1> HIDE DEF s
  <1>6. Total(s) <= Total(f)
    BY <1>5, TotalGrows, Finite
  <1>7. Total(x) \in Nat
    BY TotalNat, Finite
  <1>8. Scalar7 * Total(x) = Total(x) * Scalar7
    BY <1>1, <1>7
  <1> QED BY <1>3, <1>4, <1>6, <1>7, <1>8

\* A step whose payments come out of the promises keeps them covered.
LEMMA FundedFollows ==
    ASSUME Books, Books', Funded, NEW x \in [Pools -> Nat],
           \A p \in Pools : Promised'[p] + x[p] * Scalar7 <= Promised[p],
           emitter_last' = emitter_last, last_distribution' = last_distribution,
           blnd' = blnd - Total(x)
    PROVE  Funded'
  <1> DEFINE f == Promised
             h == Promised'
             open == (emitter_last - last_distribution) * Scalar7 * Scalar7
             paid == Total(x)
  <1>1. f \in [Pools -> Nat] /\ h \in [Pools -> Nat] /\ Total(f) \in Nat /\ Total(h) \in Nat
    BY PromisedTyped, PromisedTypedLater
  <1>2. Total(f) + open <= blnd * Scalar7 /\ blnd \in Nat /\ open \in Int /\ Scalar7 \in Nat
    <2>1. blnd \in Nat /\ emitter_last \in Nat /\ last_distribution \in Nat /\ Scalar7 \in Nat
      BY BalancesAssumption DEF Books, TypeOK
    <2> QED BY <2>1 DEF Funded
  <1>3. Funded' <=> Total(h) + open <= (blnd - paid) * Scalar7
    BY DEF Funded
  <1> HIDE DEF f, h, open, paid
  <1>4. \A p \in Pools : h[p] + x[p] * Scalar7 <= f[p]
    BY DEF f, h
  <1>5. Total(h) + paid * Scalar7 <= Total(f) /\ paid \in Nat
    BY <1>1, <1>4, TotalsPaid DEF paid
  <1>6. (blnd - paid) * Scalar7 = blnd * Scalar7 - paid * Scalar7
    BY <1>2, <1>5
  <1>7. paid * Scalar7 \in Nat /\ blnd * Scalar7 \in Nat
    BY <1>2, <1>5, ProductNat
  <1> QED BY <1>1, <1>2, <1>3, <1>5, <1>6, <1>7

\* A step that pays nobody and promises nothing new.
LEMMA FundedStays ==
    ASSUME Books, Books', Funded, \A p \in Pools : PromiseOf(p)' <= PromiseOf(p),
           UNCHANGED <<pool_emissions, allowance, emitter_last, last_distribution, blnd>>
    PROVE  Funded'
  <1> DEFINE x == [p \in Pools |-> 0]
  <1>1. x \in [Pools -> Nat] /\ Total(x) = 0 /\ \A p \in Pools : x[p] = 0
    BY TotalZero, Finite
  <1> HIDE DEF x
  <1>2. blnd' = blnd - Total(x)
    BY <1>1 DEF Books, TypeOK
  <1>3. ASSUME NEW p \in Pools PROVE Promised'[p] + x[p] * Scalar7 <= Promised[p]
    <2>1. /\ Promised[p] = (pool_emissions[p] + allowance[p]) * Scalar7 + PromiseOf(p)
          /\ Promised'[p] = (pool_emissions[p] + allowance[p]) * Scalar7 + PromiseOf(p)'
      BY DEF Promised
    <2>2. (pool_emissions[p] + allowance[p]) * Scalar7 \in Nat /\ Scalar7 \in Nat
      <3>1. pool_emissions[p] + allowance[p] \in Nat /\ Scalar7 \in Nat
        BY BalancesAssumption DEF Books, TypeOK
      <3> QED BY <3>1, ProductNat
    <2>3. PromiseOf(p) \in Nat /\ PromiseOf(p)' \in Nat /\ PromiseOf(p)' <= PromiseOf(p)
      BY EmissionsKnown, PromisedLater
    <2>4. x[p] * Scalar7 = 0
      BY <1>1, <2>2
    <2> QED BY <2>1, <2>2, <2>3, <2>4
  <1> QED BY <1>1, <1>2, <1>3, FundedFollows

\* A claim keeps the promises covered when the claimer gets the shares.
LEMMA ClaimFunded ==
    ASSUME Books, Books', Funded, NEW list \in Seq(Pools), NEW u \in Users, NEW out \in Nat,
           Claim(list, u, u, out)
    PROVE  Funded'
  <1> DEFINE x == Claims(list, u)
  <1>1. \A p \in ToSet(list) : CanUpdateEmissions(p)
    BY DEF Claim
  <1>2. /\ x \in [Pools -> Nat] /\ Total(x) \in Nat
        /\ Total(x) = SumFunction([p \in ToSet(list) |-> ClaimOf(list, p, u)])
    BY <1>1, ClaimsTyped
  <1>3. UNCHANGED <<pool_emissions, allowance, emitter_last, last_distribution>>
    BY DEF Claim, zone
  <1>4. blnd' = blnd - Total(x)
    <2>1. CASE Total(x) = 0
      <3>1. blnd' = blnd /\ blnd \in Nat
        BY <1>2, <2>1, Zenon DEF Claim, Books, TypeOK
      <3> HIDE DEF x
      <3> QED BY <2>1, <3>1
    <2>2. CASE Total(x) # 0
      BY <2>2, ClaimFunds
    <2> QED BY <2>1, <2>2
  <1>5. ASSUME NEW p \in Pools PROVE Promised'[p] + x[p] * Scalar7 <= Promised[p]
    <2>1. /\ Promised[p] = (pool_emissions[p] + allowance[p]) * Scalar7 + PromiseOf(p)
          /\ Promised'[p] = (pool_emissions[p] + allowance[p]) * Scalar7 + PromiseOf(p)'
      BY <1>3 DEF Promised
    <2>2. (pool_emissions[p] + allowance[p]) * Scalar7 \in Nat /\ x[p] * Scalar7 \in Nat
      <3>1. pool_emissions[p] \in Nat /\ allowance[p] \in Nat /\ Scalar7 \in Nat
        BY PromisesTyped
      <3> HIDE DEF x
      <3>2. x[p] \in Nat /\ pool_emissions[p] + allowance[p] \in Nat
        BY <1>2, <3>1
      <3> QED BY <3>1, <3>2, ProductNat
    <2>3. PromiseOf(p) \in Nat /\ PromiseOf(p)' \in Nat
      BY EmissionsKnown, PromisedLater
    <2>4. PromiseOf(p)' + x[p] * Scalar7 <= PromiseOf(p)
      BY ClaimedPromise
    <2> HIDE DEF x
    <2> QED BY <2>1, <2>2, <2>3, <2>4
  <1> HIDE DEF x
  <1> QED BY <1>2, <1>3, <1>4, <1>5, FundedFollows

\* The same of promises that grow.
LEMMA TotalsPromised ==
    ASSUME NEW f \in [Pools -> Nat], NEW h \in [Pools -> Nat], NEW x \in [Pools -> Nat],
           \A p \in Pools : h[p] <= f[p] + x[p] * Scalar7
    PROVE  Total(h) <= Total(f) + Total(x) * Scalar7
  <1> DEFINE y == [p \in Pools |-> Scalar7 * x[p]]
             s == [p \in Pools |-> f[p] + y[p]]
  <1>1. Scalar7 \in Nat
    BY BalancesAssumption
  <1>2. y \in [Pools -> Nat] /\ \A p \in Pools : y[p] = x[p] * Scalar7
    <2>1. \A p \in Pools : Scalar7 * x[p] \in Nat /\ Scalar7 * x[p] = x[p] * Scalar7
      BY <1>1, ProductNat
    <2> QED BY <2>1
  <1>3. Total(y) = Scalar7 * Total(x)
    BY <1>1, TotalScales, Finite
  <1> HIDE DEF y
  <1>4. Total(s) = Total(f) + Total(y)
    BY <1>2, TotalAdds, Finite
  <1>5. s \in [Pools -> Nat] /\ \A p \in Pools : h[p] <= s[p]
    BY <1>2
  <1> HIDE DEF s
  <1>6. Total(h) <= Total(s)
    BY <1>5, TotalGrows, Finite
  <1>7. Total(x) \in Nat
    BY TotalNat, Finite
  <1>8. Scalar7 * Total(x) = Total(x) * Scalar7
    BY <1>1, <1>7
  <1> QED BY <1>3, <1>4, <1>6, <1>8

\* What gulp_emissions leaves a pool to take.
LEMMA PoolGulps ==
    ASSUME Books, GulpEmissions, NEW p \in Pools
    PROVE  pool_emissions'[p] = pool_emissions[p] + (IF InZone(p) THEN Part(p, 3) ELSE 0)
  <1>1. pool_emissions' = [q \in Pools |->
           IF InZone(q) THEN pool_emissions[q] + Part(q, 3) ELSE pool_emissions[q]]
    BY GulpChanges
  <1>2. pool_emissions[p] \in Nat
    BY PromisesTyped
  <1> QED BY <1>1, <1>2

\* gulp_emissions promises no more than the emitter distributed since the last time.
LEMMA GulpFunded ==
    ASSUME Books, Books', Funded, Distinct(reward_zone), GulpEmissions
    PROVE  Funded'
  <1> DEFINE f == Promised
             h == Promised'
             x == Parts
             n == New
             s7 == Scalar7
  <1>1. f \in [Pools -> Nat] /\ h \in [Pools -> Nat] /\ Total(f) \in Nat /\ Total(h) \in Nat
    BY PromisedTyped, PromisedTypedLater
  <1>2. ZoneTokens # 0 /\ last_distribution' = emitter_last /\ emitter_last' = emitter_last
        /\ blnd' = blnd /\ allowance' = allowance
    BY GulpChanges DEF GulpEmissions, external
  <1>3. x \in [Pools -> Nat] /\ Total(x) \in Nat /\ Total(x) <= n
    BY <1>2, PartsTotal DEF Distinct
  <1>4. n \in Nat /\ s7 \in Nat
    BY ZoneTyped
  <1>5. ASSUME NEW p \in Pools PROVE h[p] <= f[p] + x[p] * s7
    <2> DEFINE a == pool_emissions[p]
               b == allowance[p]
               c == IF InZone(p) THEN Part(p, 3) ELSE 0
               d == IF InZone(p) THEN Part(p, 7) ELSE 0
               u == PromiseOf(p)
               v == PromiseOf(p)'
    <2>1. f[p] = (a + b) * s7 + u /\ h[p] = (a + c + b) * s7 + v
      <3>1. pool_emissions'[p] = a + c /\ allowance'[p] = b
        BY <1>2, PoolGulps
      <3> HIDE DEF a, b, c
      <3> QED BY <3>1 DEF Promised, a, b
    <2>2. a \in Nat /\ b \in Nat
      BY PromisesTyped
    <2>3. c \in Nat /\ d \in Nat /\ x[p] = d + c
      BY <1>2, PartsBounded DEF Parts
    <2>4. u \in Nat /\ v \in Nat
      BY EmissionsKnown, PromisedLater
    <2>5. v <= u + d * s7
      <3>1. v <= u + (IF InZone(p) THEN Part(p, 7) * Scalar7 ELSE 0)
        BY GulpedPromise
      <3>2. (IF InZone(p) THEN Part(p, 7) * Scalar7 ELSE 0) = d * s7
        BY <1>4
      <3> QED BY <3>1, <3>2
    <2> HIDE DEF f, h, x, n, s7, a, b, c, d, u, v
    <2>6. (a + c + b) * s7 = (a + b) * s7 + c * s7 /\ (d + c) * s7 = d * s7 + c * s7
      BY <1>4, <2>2, <2>3
    <2>7. (a + b) * s7 \in Nat /\ c * s7 \in Nat /\ d * s7 \in Nat
      BY <1>4, <2>2, <2>3, ProductNat
    <2> QED BY <2>1, <2>3, <2>4, <2>5, <2>6, <2>7
  <1>6. Funded <=> Total(f) + n * s7 <= blnd * s7
    BY DEF Funded, New
  <1>7. Funded' <=> Total(h) <= blnd * s7
    <2>1. Funded' <=> Total(h) + (emitter_last - emitter_last) * s7 * s7 <= blnd * s7
      BY <1>2 DEF Funded
    <2>2. emitter_last \in Nat /\ blnd \in Nat
      BY DEF Books, TypeOK
    <2> HIDE DEF h, s7
    <2>3. (emitter_last - emitter_last) * s7 * s7 = 0
      BY <2>2, <1>4
    <2> QED BY <1>1, <2>1, <2>3
  <1>8. blnd \in Nat
    BY DEF Books, TypeOK
  <1> HIDE DEF f, h, x, n
  <1>9. Total(h) <= Total(f) + Total(x) * s7
    BY <1>1, <1>3, <1>5, TotalsPromised
  <1> HIDE DEF s7
  <1>10. Total(x) * s7 <= n * s7
    BY <1>3, <1>4, ProductGrows
  <1>11. Total(x) * s7 \in Nat /\ n * s7 \in Nat /\ blnd * s7 \in Nat
    BY <1>3, <1>4, <1>8, ProductNat
  <1> QED BY <1>1, <1>6, <1>7, <1>9, <1>10, <1>11

\* A pool that takes its emissions as an allowance is promised the same.
LEMMA GulpPoolFunded ==
    ASSUME Books, Books', Funded, NEW p \in Pools, GulpPoolEmissions(p)
    PROVE  Funded'
  <1> DEFINE x == [q \in Pools |-> 0]
  <1>1. x \in [Pools -> Nat] /\ Total(x) = 0 /\ \A q \in Pools : x[q] = 0
    BY TotalZero, Finite
  <1> HIDE DEF x
  <1>2. blnd' = blnd - Total(x) /\ emitter_last' = emitter_last
        /\ last_distribution' = last_distribution
    BY <1>1 DEF GulpPoolEmissions, Books, TypeOK
  <1>3. ASSUME NEW q \in Pools PROVE Promised'[q] + x[q] * Scalar7 <= Promised[q]
    <2>1. pool_emissions'[q] + allowance'[q] = pool_emissions[q] + allowance[q]
      BY DEF GulpPoolEmissions, Books, TypeOK
    <2>2. PromiseOf(q)' = PromiseOf(q)
      BY PromiseIdle DEF GulpPoolEmissions, funds, emissions
    <2>3. Promised'[q] = Promised[q]
      BY <2>1, <2>2 DEF Promised
    <2>4. x[q] * Scalar7 = 0
      BY <1>1, BalancesAssumption
    <2>5. Promised[q] \in Nat
      BY PromisedTyped
    <2> QED BY <2>3, <2>4, <2>5
  <1> QED BY <1>1, <1>2, <1>3, FundedFollows

\* What a pool pays out leaves its allowance and the backstop.
LEMMA PaysFunded ==
    ASSUME Books, Books', Funded, NEW p \in Pools, NEW n \in Nat, PoolPaysOut(p, n)
    PROVE  Funded'
  <1> DEFINE z == [q \in Pools |-> 0]
             x == [q \in Pools |-> IF q = p THEN n ELSE 0]
  <1>1. x \in [Pools -> Nat] /\ \A q \in Pools : x[q] = IF q = p THEN n ELSE 0
    OBVIOUS
  <1>2. Total(x) = n
    <2>1. z \in [Pools -> Nat] /\ Total(z) = 0 /\ z[p] = 0
      BY TotalZero, Finite
    <2>2. \A q \in Pools \ {p} : x[q] = z[q]
      OBVIOUS
    <2>3. Total(x) = Total(z) + x[p] - z[p]
      <3>1. x \in [Pools -> Nat] /\ z \in [Pools -> Nat]
        BY <1>1, <2>1
      <3> HIDE DEF x, z
      <3> QED BY <2>2, <3>1, TotalFollows, Finite
    <2>4. x[p] = n
      OBVIOUS
    <2> HIDE DEF x, z
    <2> QED BY <2>1, <2>3, <2>4
  <1> HIDE DEF x
  <1>3. blnd' = blnd - Total(x) /\ emitter_last' = emitter_last
        /\ last_distribution' = last_distribution
    BY <1>2 DEF PoolPaysOut, zone
  <1>4. ASSUME NEW q \in Pools PROVE Promised'[q] + x[q] * Scalar7 <= Promised[q]
    <2> DEFINE a == pool_emissions[q]
               b == allowance[q]
               c == allowance'[q]
               k == x[q]
               u == PromiseOf(q)
    <2>1. a \in Nat /\ b \in Nat /\ c \in Nat /\ k \in Nat /\ Scalar7 \in Nat
      BY <1>1, BalancesAssumption DEF Books, TypeOK
    <2>2. b = c + k
      <3>1. allowance' = [allowance EXCEPT ![p] = allowance[p] - n]
        BY DEF PoolPaysOut
      <3>2. allowance \in [Pools -> Nat] /\ allowance[q] \in Nat /\ k = IF q = p THEN n ELSE 0
        BY <1>1, PromisesTyped
      <3>3. c = IF q = p THEN allowance[q] - n ELSE allowance[q]
        BY <3>1, <3>2
      <3> QED BY <3>2, <3>3
    <2>3. PromiseOf(q)' = u /\ u \in Nat
      BY PromiseIdle, EmissionsKnown DEF PoolPaysOut, funds, emissions
    <2>4. Promised[q] = (a + b) * Scalar7 + u /\ Promised'[q] = (a + c) * Scalar7 + u
      BY <2>3 DEF Promised, PoolPaysOut, zone
    <2> HIDE DEF a, b, c, u
    <2>5. (a + b) * Scalar7 = (a + c) * Scalar7 + k * Scalar7
      BY <2>1, <2>2
    <2>6. (a + c) * Scalar7 \in Nat /\ k * Scalar7 \in Nat
      BY <2>1, ProductNat
    <2> QED BY <2>3, <2>4, <2>5, <2>6
  <1> QED BY <1>1, <1>3, <1>4, FundedFollows

\* The emitter pays for every second it counts.
LEMMA EmitterFunded ==
    ASSUME Books, Books', Funded, EmitterDistributes
    PROVE  Funded'
  <1> DEFINE f == Promised
             s7 == Scalar7
  <1>1. Promised' = f
    <2>1. \A p \in Pools : PromiseOf(p)' = PromiseOf(p)
      BY PromiseIdle DEF EmitterDistributes, funds, emissions
    <2> QED BY <2>1 DEF Promised, EmitterDistributes, zone
  <1>2. Total(f) \in Nat /\ s7 \in Nat
    BY PromisedTyped, BalancesAssumption
  <1>3. /\ now \in Nat /\ emitter_last \in Nat /\ last_distribution \in Nat /\ blnd \in Nat
        /\ emitter_last <= now
    BY DEF Books, TypeOK, Clocks
  <1>4. Funded <=> Total(f) + (emitter_last - last_distribution) * s7 * s7 <= blnd * s7
    BY DEF Funded
  <1>5. Funded' <=> Total(f) + (now - last_distribution) * s7 * s7
                      <= (blnd + (now - emitter_last) * s7) * s7
    BY <1>1 DEF Funded, EmitterDistributes, zone
  <1> HIDE DEF f, s7
  <1>6. (now - last_distribution) * s7
          = (emitter_last - last_distribution) * s7 + (now - emitter_last) * s7
    BY <1>2, <1>3
  <1> DEFINE a == (emitter_last - last_distribution) * s7
             b == (now - emitter_last) * s7
  <1>7. a \in Int /\ b \in Int
    BY <1>2, <1>3
  <1> HIDE DEF a, b
  <1>8. (a + b) * s7 = a * s7 + b * s7 /\ (blnd + b) * s7 = blnd * s7 + b * s7
    BY <1>2, <1>3, <1>7
  <1>9. a * s7 \in Int /\ b * s7 \in Int /\ blnd * s7 \in Int
    BY <1>2, <1>3, <1>7
  <1> QED BY <1>2, <1>4, <1>5, <1>6, <1>8, <1>9 DEF a, b

\* Withdrawals, draws and donations leave the unqueued shares alone.
LEMMA IdleShares ==
    ASSUME Books, NEW p \in Pools, NEW u \in Users, NEW amount \in Nat,
           Withdraw(u, p, amount) \/ Draw(p, amount, u) \/ Donate(u, p, amount)
    PROVE  \A q \in Pools, v \in Users : user_balance'[q][v].shares = user_balance[q][v].shares
  <1> SUFFICES ASSUME NEW q \in Pools, NEW v \in Users
               PROVE  user_balance'[q][v].shares = user_balance[q][v].shares
    OBVIOUS
  <1>1. CASE Draw(p, amount, u) \/ Donate(u, p, amount)
    BY <1>1 DEF Draw, Donate
  <1>2. CASE Withdraw(u, p, amount)
    <2>1. PICK k : user_balance' = [user_balance EXCEPT ![p][u].q4w = k]
      BY <1>2 DEF Withdraw
    <2>2. /\ user_balance \in [Pools -> [Users -> UserBalance]]
          /\ user_balance[q] \in [Users -> UserBalance]
          /\ user_balance[q][v] \in UserBalance
      BY WalletTyped
    <2>3. user_balance'[q][v] = IF q = p /\ v = u THEN [user_balance[q][v] EXCEPT !.q4w = k]
                                ELSE user_balance[q][v]
      BY <2>1, <2>2
    <2> QED BY <2>2, <2>3 DEF UserBalance
  <1> QED BY <1>1, <1>2

\* Claims go to the claimer.
ClaimersPaid == \A pair \in Recipients : pair[1] = pair[2]

\* Every step keeps the promises covered.
LEMMA FundedStep ==
    ASSUME ClaimersPaid
    PROVE  Books /\ Books' /\ Standing /\ Funded /\ [Next]_vars => Funded'
  <1> SUFFICES ASSUME Books, Books', Standing, Funded, [Next]_vars PROVE Funded'
    OBVIOUS
  <1>0. \A p \in Pools : PromiseOf(p) \in Nat /\ PromiseOf(p) <= PromiseOf(p)
    BY EmissionsKnown
  <1>1. ASSUME UNCHANGED <<emissions, user_balance, pool_emissions, allowance, emitter_last,
                           last_distribution, blnd>>
        PROVE  Funded'
    <2>1. \A p \in Pools : PromiseOf(p)' = PromiseOf(p)
      BY <1>1, PromiseIdle DEF emissions
    <2> QED BY <1>0, <1>1, <2>1, FundedStays
  <1>2. CASE UNCHANGED vars
    BY <1>1, <1>2 DEF vars, funds, zone, external
  <1>3. ASSUME NEW p \in Pools, Deploy(p) PROVE Funded'
    BY <1>1, <1>3 DEF Deploy, funds, zone, external
  <1>4. ASSUME NEW p \in Pools, GulpPoolEmissions(p) PROVE Funded'
    BY <1>4, GulpPoolFunded
  <1>5. ASSUME NEW p \in Pools, NEW u \in Users, NEW amount \in Nat,
               Deposit(u, p, amount) \/ QueueWithdrawal(u, p, amount) \/ DequeueWithdrawal(u, p, amount)
        PROVE  Funded'
    <2>1. UNCHANGED <<zone, external>> /\ UpdateEmissions(p, u)
      BY <1>5 DEF Deposit, QueueWithdrawal, DequeueWithdrawal
    <2>2. \E pool, ub : FundStep(p, u, pool, ub)
      BY <1>5, DepositStep, QueueStep, DequeueStep
    <2>3. \A q \in Pools : PromiseOf(q)' <= PromiseOf(q)
      BY <2>1, <2>2, SettledPromise
    <2> QED BY <2>1, <2>3, FundedStays DEF zone, external
  <1>6. ASSUME NEW p \in Pools, NEW u \in Users, NEW amount \in Nat,
               Withdraw(u, p, amount) \/ Draw(p, amount, u) \/ Donate(u, p, amount)
        PROVE  Funded'
    <2>1. UNCHANGED <<emissions, zone, external>>
      BY <1>6 DEF Withdraw, Draw, Donate
    <2>2. \A q \in Pools : PromiseOf(q)' = PromiseOf(q)
      BY <1>6, <2>1, IdleShares, PromiseIdle DEF emissions
    <2> QED BY <1>0, <2>1, <2>2, FundedStays DEF zone, external
  <1>7. ASSUME NEW list \in ClaimLists, NEW pair \in Recipients, NEW out \in CometOut,
               Claim(list, pair[1], pair[2], out)
        PROVE  Funded'
    <2>1. list \in Seq(Pools) /\ pair[1] \in Users /\ pair[2] = pair[1] /\ out \in Nat
      BY AmountsTyped DEF ClaimersPaid
    <2>2. Claim(list, pair[1], pair[1], out)
      BY <1>7, <2>1
    <2> QED BY <2>1, <2>2, ClaimFunded
  <1>8. ASSUME NEW p \in Pools, NEW q \in Pools, AddReward(p, q) PROVE Funded'
    BY <1>1, <1>8 DEF AddReward, funds, external
  <1>9. ASSUME NEW value \in TokenValues, UpdateTknVal(value) PROVE Funded'
    BY <1>1, <1>9 DEF UpdateTknVal, funds, external
  <1>10. ASSUME NEW p \in Pools, PoolPaysOut(p, allowance[p]) PROVE Funded'
    BY <1>10, PaysFunded, PromisesTyped
  <1>11. ASSUME GulpEmissions PROVE Funded'
    BY <1>11, GulpFunded DEF Standing
  <1>12. ASSUME EmitterDistributes PROVE Funded'
    BY <1>12, EmitterFunded
  <1>13. ASSUME Tick PROVE Funded'
    BY <1>1, <1>13 DEF Tick, funds, zone, external
  <1> QED BY <1>2, <1>3, <1>4, <1>5, <1>6, <1>7, <1>8, <1>9, <1>10, <1>11, <1>12, <1>13,
             AmountsTyped DEF Next

\* At first nothing is promised.
LEMMA FundedFirst == Init => Funded
  <1> SUFFICES ASSUME Init PROVE Funded
    OBVIOUS
  <1>1. \A p \in Pools : PromiseOf(p) = 0
    BY DEF Init, PromiseOf, Promise
  <1>2. Scalar7 \in Nat /\ 0 * Scalar7 = 0 /\ (0 - 0) * Scalar7 = 0
    BY BalancesAssumption
  <1>3. Promised = [p \in Pools |-> 0]
    BY <1>1, <1>2 DEF Promised, Init
  <1>4. Total(Promised) = 0
    BY <1>3, TotalZero, Finite
  <1> QED BY <1>2, <1>4 DEF Funded, Init

\* What the property adds up for a pool is at most what the proof counts.
LEMMA OwedPromised ==
    ASSUME Books, NEW p \in Pools
    PROVE  OwedBy(p) \in Nat /\ OwedBy(p) * Scalar7 <= Promised[p]
  <1> DEFINE a == pool_emissions[p]
             b == allowance[p]
             left == StreamLeft(p)
             owed == [u \in Users |-> OwedTo(p, u)]
             s7 == Scalar7
  <1>1. a \in Nat /\ b \in Nat /\ s7 \in Nat
    BY PromisesTyped
  <1>2. owed \in [Users -> Nat] /\ left \in Nat /\ left * s7 + Total(owed) * s7 <= PromiseOf(p)
    <2>1. CASE emis_data[p] = None
      <3>1. owed = [u \in Users |-> 0] /\ left = 0
        BY <2>1, EmissionsKnown DEF OwedTo, StreamLeft
      <3>2. Total(owed) = 0
        BY <3>1, TotalZero, Finite
      <3>3. PromiseOf(p) = 0
        BY <2>1 DEF PromiseOf, Promise
      <3>4. owed \in [Users -> Nat]
        BY <3>1
      <3> HIDE DEF owed, left
      <3>5. left * s7 = 0 /\ Total(owed) * s7 = 0
        BY <1>1, <3>1, <3>2
      <3> QED BY <3>1, <3>3, <3>4, <3>5
    <2>2. CASE emis_data[p] # None
      <3> DEFINE c == emis_config[p]
                 d == emis_data[p]
                 records == user_emis[p]
                 ubs == user_balance[p]
                 due == DueAt(d.index, records, ubs)
                 paid == [u \in Users |-> s7 * owed[u]]
      <3>1. c \in BackstopEmissionConfig /\ d \in BackstopEmissionsData /\ c # None
            /\ d.index \in Nat /\ records \in Records /\ NotAhead(d.index, records)
        BY <2>2, EmissionsKnown
      <3>2. ubs \in [Users -> UserBalance]
        BY PoolTyped
      <3>3. left = Unstreamed(c, d)
        BY <3>1 DEF StreamLeft, Unstreamed
      <3>4. PromiseOf(p) = Unstreamed(c, d) * s7 + Total(due)
        BY <2>2 DEF PromiseOf, Promise
      <3>5. Unstreamed(c, d) \in Nat
        BY <3>1, UnstreamedNat
      <3>6. ASSUME NEW u \in Users PROVE owed[u] \in Nat /\ owed[u] * s7 <= due[u]
        <4> DEFINE r == RecordIn(records, u)
        <4>1. r \in UserEmissionData /\ r.index <= d.index /\ due[u] = Due(r, ubs[u].shares, d.index)
          BY <3>1, <3>2, DueTyped
        <4>2. owed[u] = Accrued(r, ubs[u].shares, d.index)
          BY <2>2 DEF OwedTo, RecordIn
        <4>3. ubs[u].shares \in Nat
          BY PoolTyped
        <4> HIDE DEF r, owed, due
        <4> QED BY <3>1, <4>1, <4>2, <4>3, AccruedCovered
      <3>7. due \in [Users -> Nat] /\ Total(due) \in Nat
        BY <3>1, <3>2, DueTyped
      <3>8. owed = [u \in Users |-> owed[u]]
        OBVIOUS
      <3> HIDE DEF c, d, records, ubs, due, owed, left
      <3>9. owed \in [Users -> Nat]
        BY <3>6, <3>8
      <3>10. Total(paid) = s7 * Total(owed) /\ Total(owed) \in Nat
        BY <1>1, <3>9, TotalScales, TotalNat, Finite
      <3>11. paid \in [Users -> Nat] /\ \A u \in Users : paid[u] <= due[u]
        <4>1. \A u \in Users : s7 * owed[u] \in Nat /\ s7 * owed[u] <= due[u]
          BY <1>1, <3>6, ProductNat
        <4> QED BY <4>1
      <3> HIDE DEF paid
      <3>12. Total(paid) <= Total(due)
        BY <3>7, <3>11, TotalGrows, Finite
      <3>13. Total(owed) * s7 = s7 * Total(owed)
        BY <1>1, <3>10
      <3> HIDE DEF s7
      <3>14. left \in Nat /\ PromiseOf(p) = left * s7 + Total(due)
        BY <3>3, <3>4, <3>5
      <3>15. left * s7 \in Nat /\ Total(owed) * s7 \in Nat
        BY <1>1, <3>10, <3>14, ProductNat
      <3>16. Total(owed) * s7 <= Total(due)
        BY <3>10, <3>12, <3>13
      <3>17. left * s7 + Total(owed) * s7 <= PromiseOf(p)
        BY <3>7, <3>14, <3>15, <3>16
      <3> QED BY <3>9, <3>14, <3>17
    <2> QED BY <2>1, <2>2
  <1>3. OwedBy(p) = a + b + left + Total(owed)
    BY SumIsTotal DEF OwedBy
  <1>4. Promised[p] = (a + b) * s7 + PromiseOf(p)
    BY DEF Promised
  <1>5. PromiseOf(p) \in Nat
    BY EmissionsKnown
  <1> HIDE DEF a, b, left, owed, s7
  <1>6. Total(owed) \in Nat
    BY <1>2, TotalNat, Finite
  <1>7. (a + b + left + Total(owed)) * s7 = (a + b) * s7 + left * s7 + Total(owed) * s7
    BY <1>1, <1>2, <1>6
  <1>8. (a + b) * s7 \in Nat /\ left * s7 \in Nat /\ Total(owed) * s7 \in Nat
    BY <1>1, <1>2, <1>6, ProductNat
  <1> QED BY <1>1, <1>2, <1>3, <1>4, <1>5, <1>6, <1>7, <1>8 DEF s7

\* Promises that are covered fund everything the property adds up.
LEMMA FundedOwed == Books /\ Funded => EmissionsFunded
  <1> SUFFICES ASSUME Books, Funded PROVE EmissionsFunded
    OBVIOUS
  <1> DEFINE f == [p \in Pools |-> OwedBy(p)]
             h == Promised
             open == emitter_last - last_distribution
             s7 == Scalar7
  <1>1. f \in [Pools -> Nat] /\ \A p \in Pools : f[p] * s7 <= h[p]
    BY OwedPromised
  <1>2. h \in [Pools -> Nat] /\ Total(h) \in Nat
    BY PromisedTyped
  <1>3. Total(h) + open * s7 * s7 <= blnd * s7
    BY DEF Funded
  <1>4. open \in Nat /\ blnd \in Nat /\ s7 \in Nat \ {0}
    BY PromisesTyped, BalancesAssumption DEF Books, Clocks
  <1>5. EmissionsFunded <=> Total(f) <= blnd
    BY SumIsTotal DEF EmissionsFunded
  <1> HIDE DEF f, h, open, s7
  <1>6. Total(f) \in Nat
    BY <1>1, TotalNat, Finite
  <1>7. s7 * Total(f) <= 1 * Total(h)
    <2>1. \A p \in Pools : s7 * f[p] <= 1 * h[p]
      BY <1>1, <1>2, <1>4
    <2> QED BY <1>1, <1>2, <1>4, <2>1, ScaledTotals
  <1>8. open * s7 * s7 \in Nat
    BY <1>4, ProductNat
  <1>9. s7 * Total(f) <= blnd * s7
    <2>1. s7 * Total(f) \in Nat /\ blnd * s7 \in Nat
      BY <1>4, <1>6, ProductNat
    <2> QED BY <1>2, <1>3, <1>7, <1>8, <2>1
  <1>10. Total(f) <= blnd
    BY <1>4, <1>6, <1>9, Cancelled
  <1> QED BY <1>5, <1>10

\* The BLND the emitter minted covers all emissions promised to pools and
\* depositors, for any history in which claims are paid to the claimer.
THEOREM EmissionsStayFunded ==
    ASSUME ClaimersPaid
    PROVE  Spec => []EmissionsFunded
  <1>1. Init => Funded
    BY FundedFirst
  <1>2. Books /\ Books' /\ Standing /\ Funded /\ [Next]_vars => Funded'
    BY FundedStep
  <1>3. Books /\ Funded => EmissionsFunded
    BY FundedOwed
  <1> QED BY <1>1, <1>2, <1>3, StandingAlways, PTL DEF Spec
-----------------------------------------------------------------------------
\* A user without a record of a pool that has begun to emit held shares then.
Recorded(p, u) ==
    emis_data[p] # None /\ user_emis[p][u] = None /\ user_balance[p][u].shares > 0
        => u \in early[p]
AllRecorded == \A p \in Pools, u \in Users : Recorded(p, u)

\* A step that leaves the index, the records and the shares alone.
LEMMA RecordsIdle ==
    ASSUME AllRecorded, UNCHANGED <<emissions, early>>,
           \A p \in Pools, u \in Users : user_balance'[p][u].shares = user_balance[p][u].shares
    PROVE  AllRecorded'
  BY DEF AllRecorded, Recorded, emissions

\* Whoever's shares a deposit or the queue changes has a record of a pool that emits.
LEMMA SettledRecords ==
    ASSUME Books, AllRecorded, NEW p \in Pools, NEW u \in Users, UpdateEmissions(p, u),
           \E pool, ub : FundStep(p, u, pool, ub), early' = early
    PROVE  AllRecorded'
  <1> SUFFICES ASSUME NEW q \in Pools, NEW v \in Users PROVE Recorded(q, v)'
    BY DEF AllRecorded
  <1>1. PICK pool, ub : FundStep(p, u, pool, ub)
    OBVIOUS
  <1>2. /\ user_balance \in [Pools -> [Users -> UserBalance]]
        /\ user_emis \in [Pools -> [Users -> UserEmissionData \cup {None}]]
        /\ emis_data \in [Pools -> BackstopEmissionsData \cup {None}]
    BY DEF Books, TypeOK
  <1>3. Recorded(q, v)
    BY DEF AllRecorded
  <1>4. CASE q = p /\ v = u
    <2>1. CASE emis_config[p] = None
      <3>1. emis_data' = [emis_data EXCEPT ![p] = None]
        BY <2>1 DEF UpdateEmissions, CurrentData
      <3> QED BY <1>2, <1>4, <3>1 DEF Recorded
    <2>2. CASE emis_config[p] # None
      <3>3. [index |-> CurrentData(p).index, accrued |-> AccruedTo(p, u)] \in UserEmissionData
        BY <2>2, CurrentTyped DEF UpdateEmissions, UserEmissionData
      <3>4. user_emis' = [user_emis EXCEPT ![p][u] =
                            [index |-> CurrentData(p).index, accrued |-> AccruedTo(p, u)]]
        BY <2>2 DEF UpdateEmissions
      <3>5. user_emis'[p][u] # None
        BY <1>2, <3>3, <3>4, NoneAssumption
      <3> QED BY <1>4, <3>5 DEF Recorded
    <2> QED BY <2>1, <2>2
  <1>5. CASE ~ (q = p /\ v = u)
    <2>1. user_balance'[q][v] = user_balance[q][v]
      BY <1>1, <1>2, <1>5 DEF FundStep
    <2>2. user_emis'[q][v] = user_emis[q][v]
      BY <1>2, <1>5 DEF UpdateEmissions
    <2>3. emis_data'[q] # None => emis_data[q] # None
      <3>1. CASE q # p
        BY <1>2, <3>1 DEF UpdateEmissions
      <3>2. CASE q = p /\ emis_config[p] = None
        <4>1. emis_data' = [emis_data EXCEPT ![p] = None]
          BY <3>2 DEF UpdateEmissions, CurrentData
        <4> QED BY <1>2, <3>2, <4>1
      <3>3. CASE q = p /\ emis_config[p] # None
        BY <3>3, EmissionsKnown
      <3> QED BY <3>1, <3>2, <3>3
    <2> QED BY <1>3, <2>1, <2>2, <2>3 DEF Recorded
  <1> QED BY <1>4, <1>5

\* A claimer has a record of every pool that emits and it claims from.
LEMMA ClaimRecords ==
    ASSUME Books, AllRecorded, NEW list \in Seq(Pools), NEW u \in Users, NEW out \in Nat,
           Claim(list, u, u, out)
    PROVE  AllRecorded'
  <1> SUFFICES ASSUME NEW q \in Pools, NEW v \in Users PROVE Recorded(q, v)'
    BY DEF AllRecorded
  <1>1. /\ user_balance \in [Pools -> [Users -> UserBalance]]
        /\ user_emis \in [Pools -> [Users -> UserEmissionData \cup {None}]]
    BY DEF Books, TypeOK
  <1>2. Recorded(q, v)
    BY DEF AllRecorded
  <1>3. /\ emis_data'[q] = IF q \in ToSet(list) THEN CurrentData(q) ELSE emis_data[q]
        /\ user_emis'[q] = IF q \in ToSet(list) /\ emis_config[q] # None
                           THEN [user_emis[q] EXCEPT ![u] = [index |-> CurrentData(q).index,
                                                             accrued |-> 0]]
                           ELSE user_emis[q]
        /\ early' = early
        /\ q \in ToSet(list) => CanUpdateEmissions(q)
    BY DEF Claim
  <1>4. CASE q \in ToSet(list) /\ emis_config[q] = None
    BY <1>3, <1>4 DEF CurrentData, Recorded
  <1>5. CASE q \in ToSet(list) /\ emis_config[q] # None /\ v = u
    <2>1. [index |-> CurrentData(q).index, accrued |-> 0] \in UserEmissionData
      BY <1>3, <1>5, CurrentTyped DEF UserEmissionData
    <2>2. user_emis'[q][v] # None
      BY <1>1, <1>3, <1>5, <2>1, NoneAssumption
    <2> QED BY <2>2 DEF Recorded
  <1>6. CASE ~ (q \in ToSet(list) /\ v = u)
    <2>1. user_balance'[q][v].shares = user_balance[q][v].shares
      <3> DEFINE total == Total(Claims(list, u))
                 m == Mints(list, u, out)[q]
      <3>1. \A p \in ToSet(list) : CanUpdateEmissions(p)
        BY DEF Claim
      <3>2. total = SumFunction([p \in ToSet(list) |-> ClaimOf(list, p, u)])
        BY <3>1, ClaimsTyped
      <3>3. CASE total = 0
        <4>1. user_balance' = user_balance
          BY <3>2, <3>3, Zenon DEF Claim, funds
        <4> QED BY <4>1
      <3>4. CASE total # 0
        <4>1. user_balance'[q] = [user_balance[q] EXCEPT ![u].shares = @ + m]
          <5>1. user_balance' = [p \in Pools |-> [user_balance[p] EXCEPT ![u].shares =
                                                    @ + Mints(list, u, out)[p]]]
            BY <3>4, ClaimFunds
          <5> HIDE DEF total
          <5> QED BY <5>1, Zenon
        <4>2. q \notin ToSet(list) => m = 0
          BY DEF Mints
        <4>3. user_balance[q] \in [Users -> UserBalance] /\ user_balance[q][v].shares \in Nat
              /\ user_balance[q][v] \in UserBalance
          BY PoolTyped
        <4> HIDE DEF m, total
        <4>4. CASE v # u
          BY <4>1, <4>3, <4>4
        <4>5. CASE v = u
          <5>1. m = 0
            BY <1>6, <4>2, <4>5
          <5>2. user_balance'[q][v] = [user_balance[q][v] EXCEPT !.shares = @ + m]
            BY <4>1, <4>3, <4>5
          <5>3. user_balance'[q][v].shares = user_balance[q][v].shares + m
            BY <4>3, <5>2 DEF UserBalance
          <5> QED BY <4>3, <5>1, <5>3
        <4> QED BY <4>4, <4>5
      <3> QED BY <3>3, <3>4
    <2>2. user_emis'[q][v] = user_emis[q][v]
      BY <1>1, <1>3, <1>6
    <2>3. CASE emis_config[q] = None /\ q \in ToSet(list)
      BY <1>4, <2>3
    <2>4. CASE ~ (emis_config[q] = None /\ q \in ToSet(list))
      <3>1. emis_data'[q] # None => emis_data[q] # None
        BY <1>3, <2>4, EmissionsKnown
      <3> QED BY <1>2, <1>3, <2>1, <2>2, <3>1 DEF Recorded
    <2> QED BY <2>3, <2>4
  <1> QED BY <1>4, <1>5, <1>6

\* Emissions of a pool begin when gulp_emissions first reaches it.
LEMMA GulpRecords ==
    ASSUME Books, AllRecorded, GulpEmissions
    PROVE  AllRecorded'
  <1> SUFFICES ASSUME NEW q \in Pools, NEW v \in Users PROVE Recorded(q, v)'
    BY DEF AllRecorded
  <1>1. Recorded(q, v)
    BY DEF AllRecorded
  <1>2. UNCHANGED <<user_balance, user_emis>>
    BY DEF GulpEmissions, funds
  <1>3. early'[q] = IF InZone(q) /\ emis_config[q] = None
                    THEN {u \in Users : user_balance[q][u].shares > 0} ELSE early[q]
    BY DEF GulpEmissions, InZone
  <1>4. CASE InZone(q) /\ emis_config[q] = None
    BY <1>2, <1>3, <1>4 DEF Recorded
  <1>5. CASE ~ (InZone(q) /\ emis_config[q] = None)
    <2>1. emis_data'[q] # None => emis_data[q] # None
      BY <1>5, GulpChanges, EmissionsKnown
    <2> QED BY <1>1, <1>2, <1>3, <1>5, <2>1 DEF Recorded
  <1> QED BY <1>4, <1>5

\* Every step keeps the records.
LEMMA RecordedStep ==
    ASSUME ClaimersPaid
    PROVE  Books /\ AllRecorded /\ [Next]_vars => AllRecorded'
  <1> SUFFICES ASSUME Books, AllRecorded, [Next]_vars PROVE AllRecorded'
    OBVIOUS
  <1>1. CASE UNCHANGED vars
    BY <1>1, RecordsIdle DEF vars, funds
  <1>2. ASSUME NEW p \in Pools, Deploy(p) \/ GulpPoolEmissions(p) \/ PoolPaysOut(p, allowance[p])
        PROVE  AllRecorded'
    BY <1>2, RecordsIdle DEF Deploy, GulpPoolEmissions, PoolPaysOut, funds
  <1>3. ASSUME NEW p \in Pools, NEW u \in Users, NEW amount \in Nat,
               Deposit(u, p, amount) \/ QueueWithdrawal(u, p, amount) \/ DequeueWithdrawal(u, p, amount)
        PROVE  AllRecorded'
    <2>1. early' = early /\ UpdateEmissions(p, u)
      BY <1>3 DEF Deposit, QueueWithdrawal, DequeueWithdrawal
    <2>2. \E pool, ub : FundStep(p, u, pool, ub)
      BY <1>3, DepositStep, QueueStep, DequeueStep
    <2> QED BY <2>1, <2>2, SettledRecords
  <1>4. ASSUME NEW p \in Pools, NEW u \in Users, NEW amount \in Nat,
               Withdraw(u, p, amount) \/ Draw(p, amount, u) \/ Donate(u, p, amount)
        PROVE  AllRecorded'
    <2>1. UNCHANGED <<emissions, early>>
      BY <1>4 DEF Withdraw, Draw, Donate
    <2> QED BY <1>4, <2>1, IdleShares, RecordsIdle
  <1>5. ASSUME NEW list \in ClaimLists, NEW pair \in Recipients, NEW out \in CometOut,
               Claim(list, pair[1], pair[2], out)
        PROVE  AllRecorded'
    <2>1. list \in Seq(Pools) /\ pair[1] \in Users /\ pair[2] = pair[1] /\ out \in Nat
      BY AmountsTyped DEF ClaimersPaid
    <2>2. Claim(list, pair[1], pair[1], out)
      BY <1>5, <2>1
    <2> QED BY <2>1, <2>2, ClaimRecords
  <1>6. ASSUME NEW p \in Pools, NEW q \in Pools, AddReward(p, q) PROVE AllRecorded'
    BY <1>6, RecordsIdle DEF AddReward, funds
  <1>7. ASSUME NEW value \in TokenValues, UpdateTknVal(value) PROVE AllRecorded'
    BY <1>7, RecordsIdle DEF UpdateTknVal, funds
  <1>8. ASSUME GulpEmissions PROVE AllRecorded'
    BY <1>8, GulpRecords
  <1>9. ASSUME EmitterDistributes \/ Tick PROVE AllRecorded'
    BY <1>9, RecordsIdle DEF EmitterDistributes, Tick, funds
  <1> QED BY <1>1, <1>2, <1>3, <1>4, <1>5, <1>6, <1>7, <1>8, <1>9, AmountsTyped DEF Next

\* Only a user that held shares when a pool's emissions began is due its whole
\* index, for any history in which claims are paid to the claimer.
THEOREM HistoryStaysEarly ==
    ASSUME ClaimersPaid
    PROVE  Spec => []HistoryOnlyForEarlyHolders
  <1>1. Init => AllRecorded
    BY DEF Init, AllRecorded, Recorded
  <1>2. Books /\ AllRecorded /\ [Next]_vars => AllRecorded'
    BY RecordedStep
  <1>3. AllRecorded => HistoryOnlyForEarlyHolders
    BY DEF AllRecorded, Recorded, HistoryOnlyForEarlyHolders
  <1> QED BY <1>1, <1>2, <1>3, BooksAlways, PTL DEF Spec
-----------------------------------------------------------------------------
\* Claims that name no pool twice.
DistinctClaims ==
    \A list \in ClaimLists : \A i, j \in DOMAIN list : list[i] = list[j] => i = j

\* A pool named in such a claim gets its own share of the deposit.
LEMMA NamedOnce ==
    ASSUME NEW list \in Seq(Pools), \A i, j \in DOMAIN list : list[i] = list[j] => i = j,
           NEW from, NEW p \in ToSet(list)
    PROVE  ShareOf(list, p, from) = ClaimOf(list, p, from)
  <1>1. PICK n \in DOMAIN list : list[n] = p
    BY DEF ToSet
  <1>2. {i \in DOMAIN list : list[i] = p} = {n}
    BY <1>1
  <1>3. Occurrences(list, p) = 1
    BY <1>2, FS_Singleton DEF Occurrences
  <1> QED BY <1>3 DEF ShareOf

\* The deposits of such a claim are less than a token per pool short of what it bought.
LEMMA DepositsClose ==
    ASSUME Books, NEW list \in Seq(Pools), NEW from \in Users, NEW out \in Nat,
           \A i, j \in DOMAIN list : list[i] = list[j] => i = j, Pools # {},
           \A p \in ToSet(list) : CanUpdateEmissions(p), Total(Claims(list, from)) # 0
    PROVE  out < Total(Deposits(list, from, out)) + Cardinality(Pools)
  <1> DEFINE claims == Claims(list, from)
             c == Total(claims)
             deposits == Deposits(list, from, out)
             n == Cardinality(Pools)
             ones == [p \in Pools |-> 1]
  <1>1. claims \in [Pools -> Nat] /\ c \in Nat \ {0}
    BY ClaimsTyped
  <1>2. deposits \in [Pools -> Nat] /\ Total(deposits) \in Nat
    BY DepositsBounded
  <1>3. \A p \in Pools : p \notin ToSet(list) => claims[p] = 0
    BY DEF Claims, ClaimOf
  <1>4. \A p \in Pools : p \in ToSet(list) => deposits[p] = MulFloor(out, claims[p], c)
    BY NamedOnce DEF Claims, Deposits
  <1>5. n \in Nat \ {0}
    BY Finite, FS_CardinalityType, FS_EmptySet
  <1>6. ones \in [Pools -> Nat] /\ \A p \in Pools : ones[p] = 1
    OBVIOUS
  <1>7. Total(ones) = n
    BY Finite, TotalCounts
  <1> HIDE DEF claims, c, deposits, n, ones
  <1> DEFINE above == [p \in Pools |-> deposits[p] + ones[p]]
             f == [p \in Pools |-> out * claims[p]]
             h == [p \in Pools |-> c * above[p]]
  <1>8. ASSUME NEW p \in Pools PROVE out * claims[p] + 1 <= c * (deposits[p] + 1)
    <2>1. deposits[p] \in Nat /\ claims[p] \in Nat
      BY <1>1, <1>2
    <2>2. CASE p \in ToSet(list)
      <3>1. out * claims[p] < (deposits[p] + 1) * c
        BY <1>1, <1>4, <2>1, <2>2, MulFloorBounds
      <3>2. out * claims[p] \in Nat /\ (deposits[p] + 1) * c \in Nat
            /\ (deposits[p] + 1) * c = c * (deposits[p] + 1)
        BY <1>1, <2>1, ProductNat
      <3> QED BY <3>1, <3>2
    <2>3. CASE p \notin ToSet(list)
      <3>1. out * claims[p] = 0
        BY <1>3, <2>3
      <3>2. 1 * 1 <= c * (deposits[p] + 1)
        <4>1. 1 * 1 <= c * 1 /\ c * 1 <= c * (deposits[p] + 1)
          BY <1>1, <2>1, ProductGrows
        <4>2. c * 1 = c /\ c * (deposits[p] + 1) \in Nat
          BY <1>1, <2>1, ProductNat
        <4> QED BY <1>1, <4>1, <4>2
      <3> QED BY <3>1, <3>2
    <2> QED BY <2>2, <2>3
  <1>9. /\ above \in [Pools -> Nat] /\ \A p \in Pools : above[p] = deposits[p] + 1
        /\ Total(above) = Total(deposits) + n
    <2>1. Total(above) = Total(deposits) + Total(ones)
      BY <1>2, <1>6, TotalAdds, Finite
    <2>2. above \in [Pools -> Nat] /\ \A p \in Pools : above[p] = deposits[p] + 1
      BY <1>2, <1>6
    <2> QED BY <1>7, <2>1, <2>2
  <1> HIDE DEF above
  <1>10. f \in [Pools -> Nat] /\ Total(f) = out * c
    <2>1. \A p \in Pools : out * claims[p] \in Nat
      BY <1>1, ProductNat
    <2> QED BY <1>1, <2>1, TotalScales, Finite DEF c
  <1>11. h \in [Pools -> Nat] /\ Total(h) = c * Total(above)
    <2>1. \A p \in Pools : c * above[p] \in Nat
      BY <1>1, <1>9, ProductNat
    <2>2. c \in Nat /\ above \in [Pools -> Nat]
      BY <1>1, <1>9
    <2>3. Total(h) = c * Total(above)
      BY <2>2, TotalScales, Finite
    <2> QED BY <2>1, <2>3
  <1>12. \A p \in Pools : f[p] + ones[p] * 1 <= h[p]
    <2> SUFFICES ASSUME NEW p \in Pools PROVE f[p] + ones[p] * 1 <= h[p]
      OBVIOUS
    <2>1. f[p] = out * claims[p] /\ h[p] = c * (deposits[p] + 1)
      BY <1>9
    <2>2. ones[p] * 1 = 1
      BY <1>6
    <2> QED BY <1>8, <2>1, <2>2
  <1> HIDE DEF f, h
  <1>13. Total(f) + Total(ones) * 1 <= Total(h)
    BY <1>6, <1>10, <1>11, <1>12, TotalsPay, Finite
  <1> DEFINE t == Total(deposits) + n
  <1>14. t \in Nat /\ out * c + n <= c * t
    BY <1>2, <1>5, <1>7, <1>9, <1>10, <1>11, <1>13
  <1> HIDE DEF t
  <1>15. out < t
    <2>1. SUFFICES ASSUME t <= out PROVE FALSE
      BY <1>14
    <2>2. t * c <= out * c
      BY <1>1, <1>14, <2>1, ProductGrows
    <2>3. t * c = c * t /\ t * c \in Nat /\ out * c \in Nat
      BY <1>1, <1>14, ProductNat
    <2> QED BY <1>5, <1>14, <2>2, <2>3
  <1> QED BY <1>15 DEF t, deposits, n

\* What a step brings in, and what it credits.
Received == held' - held
Credited == Total(Tokens(pool_balance')) - Total(Tokens(pool_balance))

\* A step of one pool's funds, or of none, credits what it brings.
LEMMA OthersCredit ==
    ASSUME Books, \/ UNCHANGED funds
                  \/ \E p \in Pools, u \in Users : \E pool, ub : FundStep(p, u, pool, ub)
    PROVE  Credited = Received
  <1>1. held \in Nat /\ Total(Tokens(pool_balance)) \in Nat
    BY TokensTyped DEF Books, TypeOK
  <1>2. CASE UNCHANGED funds
    BY <1>1, <1>2 DEF funds, Credited, Received
  <1>3. CASE \E p \in Pools, u \in Users : \E pool, ub : FundStep(p, u, pool, ub)
    BY <1>3, FundStepTokens DEF Credited, Received
  <1> QED BY <1>2, <1>3

\* Every step credits what it brings, but for less than a token per pool in a claim.
LEMMA StepCredits ==
    ASSUME DistinctClaims, Pools # {}, Books, Books', [Next]_vars
    PROVE  Credited <= Received /\ Received < Credited + Cardinality(Pools)
  <1> DEFINE n == Cardinality(Pools)
  <1>1. n \in Nat \ {0}
    BY Finite, FS_CardinalityType, FS_EmptySet
  <1>2. Credited \in Int /\ Received \in Int
    <2>1. /\ pool_balance \in [Pools -> PoolBalance] /\ held \in Nat
          /\ pool_balance' \in [Pools -> PoolBalance] /\ held' \in Nat
      BY DEF Books, TypeOK
    <2>2. Total(Tokens(pool_balance)) \in Nat /\ Total(Tokens(pool_balance')) \in Nat
      BY <2>1, TokensTyped
    <2> QED BY <2>1, <2>2 DEF Credited, Received
  <1>3. Credited = Received => Credited <= Received /\ Received < Credited + n
    BY <1>1, <1>2
  <1>4. UNCHANGED funds => Credited = Received
    BY OthersCredit
  <1>5. ASSUME NEW p \in Pools, NEW u \in Users, NEW m \in Nat,
               \/ Deposit(u, p, m) \/ QueueWithdrawal(u, p, m) \/ DequeueWithdrawal(u, p, m)
               \/ Withdraw(u, p, m) \/ Donate(u, p, m) \/ Draw(p, m, u)
        PROVE  Credited = Received
    <2>1. \E pool, ub : FundStep(p, u, pool, ub)
      BY <1>5, DepositStep, QueueStep, DequeueStep, WithdrawStep, DrawStep, DonateStep
    <2> QED BY <2>1, OthersCredit
  <1>6. ASSUME NEW list \in ClaimLists, NEW pair \in Recipients, NEW out \in CometOut,
               Claim(list, pair[1], pair[2], out)
        PROVE  Credited <= Received /\ Received < Credited + n
    <2> DEFINE from == pair[1]
               to == pair[2]
    <2>1. /\ list \in Seq(Pools) /\ from \in Users /\ to \in Users /\ out \in Nat
          /\ \A i, j \in DOMAIN list : list[i] = list[j] => i = j
      BY AmountsTyped DEF DistinctClaims
    <2>2. \A p \in ToSet(list) : CanUpdateEmissions(p)
      BY <1>6 DEF Claim
    <2>3. Claim(list, from, to, out)
      BY <1>6
    <2> HIDE DEF from, to
    <2>4. CASE Total(Claims(list, from)) = 0
      <3>1. UNCHANGED funds
        BY <2>1, <2>2, <2>3, <2>4, ClaimsTyped, Zenon DEF Claim
      <3> QED BY <1>3, <1>4, <3>1
    <2>5. CASE Total(Claims(list, from)) # 0
      <3>1. Credited <= Received /\ Credited = Total(Deposits(list, from, out))
        BY <2>1, <2>3, <2>5, ClaimOwned DEF Credited, Received
      <3>2. held' = held + out
        BY <2>1, <2>3, <2>5, ClaimFunds
      <3>3. held \in Nat
        BY DEF Books, TypeOK
      <3>4. out < Total(Deposits(list, from, out)) + n
        BY <2>1, <2>2, <2>5, DepositsClose
      <3>5. Received = out
        BY <2>1, <3>2, <3>3 DEF Received
      <3> QED BY <3>1, <3>4, <3>5
    <2> QED BY <2>4, <2>5
  <1> HIDE DEF n
  <1>7. ASSUME NEW p \in Pools, Deploy(p) \/ GulpPoolEmissions(p) \/ PoolPaysOut(p, allowance[p])
        PROVE  UNCHANGED funds
    BY <1>7 DEF Deploy, GulpPoolEmissions, PoolPaysOut
  <1>8. ASSUME NEW p \in Pools, NEW q \in Pools, AddReward(p, q) PROVE UNCHANGED funds
    BY <1>8 DEF AddReward
  <1>9. ASSUME NEW value \in TokenValues, UpdateTknVal(value) PROVE UNCHANGED funds
    BY <1>9 DEF UpdateTknVal
  <1>10. GulpEmissions \/ EmitterDistributes \/ Tick \/ UNCHANGED vars => UNCHANGED funds
    BY DEF GulpEmissions, EmitterDistributes, Tick, vars
  <1>11. Credited <= Received /\ Received < Credited + n
    BY <1>3, <1>4, <1>5, <1>6, <1>7, <1>8, <1>9, <1>10, AmountsTyped DEF Next
  <1> QED BY <1>11 DEF n

\* The backstop tokens a call brings in are credited to the pools it names, but for
\* less than a token per pool of rounding, as long as no claim names a pool twice.
THEOREM ReceivedCredited ==
    ASSUME DistinctClaims, Pools # {}
    PROVE  Spec => ReceivedTokensCredited
  <1> DEFINE Step ==
         LET credited == SumFunction([p \in Pools |-> pool_balance'[p].tokens - pool_balance[p].tokens])
         IN  credited <= held' - held /\ held' - held < credited + Cardinality(Pools)
  <1>1. ASSUME Books, Books', [Next]_vars PROVE Step
    <2> DEFINE t == Tokens(pool_balance)
               s == Tokens(pool_balance')
    <2>1. /\ t \in [Pools -> Nat] /\ \A p \in Pools : t[p] = pool_balance[p].tokens
          /\ s \in [Pools -> Nat] /\ \A p \in Pools : s[p] = pool_balance'[p].tokens
      BY <1>1, TokensTyped DEF Books, TypeOK
    <2> HIDE DEF t, s
    <2>2. Total([p \in Pools |-> s[p] - t[p]]) = Total(s) - Total(t)
      BY <2>1, TotalDiffers, Finite
    <2>3. [p \in Pools |-> s[p] - t[p]]
            = [p \in Pools |-> pool_balance'[p].tokens - pool_balance[p].tokens]
      BY <2>1
    <2>4. SumFunction([p \in Pools |-> pool_balance'[p].tokens - pool_balance[p].tokens]) = Credited
      BY <2>2, <2>3, SumIsTotal DEF Credited, t, s
    <2> QED BY <1>1, <2>4, StepCredits DEF Received
  <1>2. Books /\ Books' /\ [Next]_vars => Step
    BY <1>1
  <1> QED BY <1>2, BooksAlways, PTL DEF Spec, ReceivedTokensCredited
=============================================================================
