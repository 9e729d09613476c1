------------------------- MODULE PoolEmissionsProofs -------------------------
(***************************************************************************)
(* The pool's emissions for any holders, tokens, shares and streams. What  *)
(* the streams and the records still promise is measured in units of a     *)
(* token scaled by the supply: a unit of the index is owed to each unit of *)
(* a balance, and no rounding is lost in the measure.                      *)
(***************************************************************************)
EXTENDS PoolEmissions, ArithmeticProofs

\* The share of a token, of those that have none as well.
ShareOf(t) == IF t \in DOMAIN shares THEN shares[t] ELSE 0

\* The types; a token of no share has none.
Typed ==
    /\ \A x \in {now, pending, allowance, lapsed} : x \in Nat
    /\ DOMAIN shares \subseteq ReserveTokens /\ \A t \in DOMAIN shares : shares[t] \in Nat
    /\ config \in [ReserveTokens -> ReserveEmissionsConfig \cup {None}]
    /\ data \in [ReserveTokens -> ReserveEmissionsData \cup {None}]
    /\ user_data \in [ReserveTokens -> [Holders -> UserEmissionData \cup {None}]]
    /\ balance \in [ReserveTokens -> [Holders -> Nat]]
    /\ supply \in [ReserveTokens -> Nat]

\* A token's data starts with its config and is not from a later ledger; its records
\* are at most at its index.
InStep(t) ==
    /\ config[t] = None <=> data[t] = None
    /\ data[t] # None => data[t].last_time <= now
    /\ \A h \in Holders : user_data[t][h] # None =>
           config[t] # None /\ user_data[t][h].index <= data[t].index

Books == /\ Typed
         /\ Total([t \in ReserveTokens |-> ShareOf(t)]) <= Scalar7
         /\ \A t \in ReserveTokens : InStep(t) /\ supply[t] = Total(balance[t])

\* What record u of balance b is owed, scaled, at an index.
OwedAt(u, b, index) == IF u = None THEN b * index
                       ELSE u.accrued * SupplyScalar + b * (index - u.index)
Records == [Holders -> UserEmissionData \cup {None}]
NotAhead(index, us) == \A h \in Holders : us[h] # None => us[h].index <= index
Owes(us, bs, index) == Total([h \in Holders |-> OwedAt(us[h], bs[h], index)])

\* What stream c has still to emit after last.
StillToEmit(c, last) == IF c.expiration <= last THEN 0 ELSE c.eps * (c.expiration - last)

\* What a token promises, scaled: its stream to the holders, and to their records.
Promise(c, d, us, bs) ==
    StillToEmit(c, d.last_time) * SupplyScalar + Owes(us, bs, d.index)
PromiseOf(t) == IF config[t] = None THEN 0
                ELSE Promise(config[t], data[t], user_data[t], balance[t])
Promised == Total([t \in ReserveTokens |-> PromiseOf(t)])

Funded == Promised <= (allowance + lapsed) * SupplyScalar

IInv == Books /\ Funded
-----------------------------------------------------------------------------
\* The entries of a token whose emissions are configured, for the provers.
LEMMA Entries ==
    ASSUME Typed, NEW t \in ReserveTokens, InStep(t), config[t] # None
    PROVE  /\ config[t] \in ReserveEmissionsConfig /\ data[t] \in ReserveEmissionsData
           /\ config[t].expiration \in Nat /\ config[t].eps \in Nat
           /\ data[t].index \in Nat /\ data[t].last_time \in Nat /\ data[t].last_time <= now
           /\ now \in Nat /\ supply[t] \in Nat
  <1>1. data[t] # None
    BY DEF InStep
  <1>2. config[t] \in ReserveEmissionsConfig /\ data[t] \in ReserveEmissionsData
    BY <1>1 DEF Typed
  <1> QED BY <1>1, <1>2 DEF Typed, InStep, ReserveEmissionsConfig, ReserveEmissionsData

\* The records and balances of a token.
LEMMA HoldersTyped ==
    ASSUME Typed, NEW t \in ReserveTokens, NEW h \in Holders
    PROVE  /\ user_data[t][h] \in UserEmissionData \cup {None} /\ balance[t][h] \in Nat
           /\ balance[t] \in [Holders -> Nat]
           /\ user_data[t][h] # None => /\ user_data[t][h].index \in Nat
                                        /\ user_data[t][h].accrued \in Nat
  BY DEF Typed, UserEmissionData

\* A span of time is the sum of its parts, at any rate.
LEMMA SpanSplit ==
    ASSUME NEW eps \in Int, NEW x \in Int, NEW u \in Int, NEW l \in Int
    PROVE  eps * (x - l) = eps * (x - u) + (u - l) * eps
  <1>1. eps * (x - l) = eps * x - eps * l /\ eps * (x - u) = eps * x - eps * u
    OBVIOUS
  <1>2. (u - l) * eps = eps * u - eps * l
    OBVIOUS
  <1>3. eps * x \in Int /\ eps * u \in Int /\ eps * l \in Int
    OBVIOUS
  <1> QED BY <1>1, <1>2, <1>3

\* An update emits no more to the index than it takes from the stream: it takes time,
\* and what the holders together get of it is rounded down.
LEMMA UpdateTakes ==
    ASSUME Typed, NEW t \in ReserveTokens, InStep(t), config[t] # None
    PROVE  LET d == data[t]
               e == UpdatedData(t)
           IN  /\ e \in ReserveEmissionsData /\ e.index \in Nat /\ e.last_time \in Nat
               /\ d.index <= e.index /\ d.last_time <= e.last_time /\ e.last_time <= now
               /\ StillToEmit(config[t], e.last_time) \in Nat
               /\ StillToEmit(config[t], d.last_time) \in Nat
               /\ StillToEmit(config[t], e.last_time) * SupplyScalar
                    + (e.index - d.index) * supply[t]
                    <= StillToEmit(config[t], d.last_time) * SupplyScalar
  <1> DEFINE d == data[t]
             e == UpdatedData(t)
             c == config[t]
             until == AtMost(now, c.expiration)
             inc == DivFloor((until - d.last_time) * c.eps, supply[t], SupplyScalar)
  <1>1. /\ c.expiration \in Nat /\ c.eps \in Nat /\ d.index \in Nat /\ d.last_time \in Nat
        /\ d.last_time <= now /\ now \in Nat /\ supply[t] \in Nat
        /\ d \in ReserveEmissionsData
    BY Entries
  <1>2. until \in Nat /\ until <= now /\ until <= c.expiration
    BY <1>1 DEF AtMost
  <1>3. ASSUME NEW last \in Nat
        PROVE  /\ StillToEmit(c, last) \in Nat
               /\ last <= c.expiration => StillToEmit(c, last) = c.eps * (c.expiration - last)
    <2>1. last < c.expiration => c.eps * (c.expiration - last) \in Nat
      BY <1>1, ProductNat
    <2>2. c.eps * 0 = 0
      BY <1>1
    <2> QED BY <1>1, <2>1, <2>2 DEF StillToEmit
  <1>4. CASE until <= d.last_time \/ c.eps = 0 \/ supply[t] = 0
    <2>1. e = d
      BY <1>4 DEF UpdatedData
    <2>2. (d.index - d.index) * supply[t] = 0
      BY <1>1
    <2>3. StillToEmit(c, d.last_time) * SupplyScalar \in Nat
      BY <1>1, <1>3, ProductNat, PoolEmissionsAssumption
    <2> HIDE DEF c, d, e, until, inc
    <2> QED BY <1>1, <1>3, <2>1, <2>2, <2>3 DEF c, d, e
  <1>5. CASE ~(until <= d.last_time \/ c.eps = 0 \/ supply[t] = 0)
    <2>1. e = [index |-> d.index + inc, last_time |-> until]
      BY <1>5 DEF UpdatedData
    <2>2. e.index = d.index + inc /\ e.last_time = until
      BY <2>1
    <2>3. /\ until - d.last_time \in Nat /\ supply[t] \in Nat \ {0}
          /\ (until - d.last_time) * c.eps \in Nat
      <3>1. until - d.last_time \in Nat /\ supply[t] \in Nat \ {0}
        BY <1>1, <1>2, <1>5
      <3> HIDE DEF c, d, e, until
      <3> QED BY <1>1, <3>1, ProductNat
    <2>4. /\ inc \in Nat
          /\ inc * supply[t] <= ((until - d.last_time) * c.eps) * SupplyScalar
      BY <2>3, DivFloorBounds, PoolEmissionsAssumption
    <2> DEFINE l == d.last_time
               x == c.expiration
    <2>5. l \in Nat /\ x \in Nat /\ l < until /\ until <= x
      BY <1>1, <1>2, <1>5
    <2>6. /\ StillToEmit(c, until) = c.eps * (x - until)
          /\ StillToEmit(c, l) = c.eps * (x - l)
      BY <1>2, <1>3, <2>5
    <2>7. c.eps * (x - l) = c.eps * (x - until) + (until - l) * c.eps
      <3> HIDE DEF c, d, e, until, inc, l, x
      <3>1. c.eps \in Int /\ x \in Int /\ until \in Int /\ l \in Int
        BY <1>1, <1>2, <2>5
      <3> QED BY <3>1, SpanSplit
    <2> HIDE DEF c, d, e, until, inc, l, x
    <2>8. StillToEmit(c, until) \in Nat /\ StillToEmit(c, l) \in Nat
      BY <1>2, <1>3, <2>5
    <2>9. StillToEmit(c, l) * SupplyScalar
            = StillToEmit(c, until) * SupplyScalar + ((until - l) * c.eps) * SupplyScalar
      <3> DEFINE a == StillToEmit(c, l)
                 b == StillToEmit(c, until)
                 k == (until - l) * c.eps
      <3>1. a = b + k /\ a \in Int /\ b \in Int /\ k \in Int
        BY <2>3, <2>6, <2>7, <2>8 DEF l
      <3> HIDE DEF a, b, k
      <3>2. (b + k) * SupplyScalar = b * SupplyScalar + k * SupplyScalar
        BY <3>1, PoolEmissionsAssumption
      <3> QED BY <3>1, <3>2 DEF a, b, k
    <2>10. (e.index - d.index) * supply[t] = inc * supply[t]
      BY <1>1, <2>2, <2>4
    <2>11. /\ StillToEmit(c, until) * SupplyScalar \in Nat
           /\ inc * supply[t] \in Nat /\ ((until - l) * c.eps) * SupplyScalar \in Nat
      BY <2>3, <2>4, <2>8, ProductNat, PoolEmissionsAssumption DEF l
    <2>12. StillToEmit(c, e.last_time) * SupplyScalar + (e.index - d.index) * supply[t]
             <= StillToEmit(c, l) * SupplyScalar
      BY <2>2, <2>4, <2>9, <2>10, <2>11 DEF l
    <2>13. e \in ReserveEmissionsData
      BY <1>1, <1>2, <2>1, <2>4 DEF ReserveEmissionsData
    <2> QED BY <1>1, <1>2, <2>2, <2>4, <2>5, <2>8, <2>12, <2>13 DEF c, d, e, l
  <1> HIDE DEF until, inc
  <1> QED BY <1>4, <1>5

\* With the token held, an update leaves nothing to emit for this ledger.
LEMMA UpdateSettles ==
    ASSUME Typed, NEW t \in ReserveTokens, InStep(t), config[t] # None, supply[t] # 0
    PROVE  config[t].eps = 0 \/ AtMost(now, config[t].expiration) <= UpdatedData(t).last_time
  <1>1. AtMost(now, config[t].expiration) \in Nat
    BY Entries DEF AtMost
  <1> QED BY <1>1, Entries DEF UpdatedData
-----------------------------------------------------------------------------
\* A product scaled down grows with its other factor, too.
LEMMA MulFloorRises ==
    ASSUME NEW x \in Nat, NEW i \in Nat, NEW j \in Nat, NEW d \in Nat \ {0}, i <= j
    PROVE  MulFloor(x, i, d) <= MulFloor(x, j, d)
  <1>1. MulFloor(x, i, d) = MulFloor(i, x, d) /\ MulFloor(x, j, d) = MulFloor(j, x, d)
    <2>1. x * i = i * x /\ x * j = j * x
      OBVIOUS
    <2> QED BY <2>1 DEF MulFloor
  <1> QED BY <1>1, MulFloorMono

\* What record u of balance b can claim at an index.
Gained(u, b, index) ==
    IF u = None THEN MulFloor(b, index, SupplyScalar)
    ELSE IF u.index > index THEN 0
    ELSE u.accrued + MulFloor(b, index - u.index, SupplyScalar)

\* What can be claimed is worth no more than what is owed, and both rise with the index.
LEMMA OwedBounds ==
    ASSUME NEW u \in UserEmissionData \cup {None}, NEW b \in Nat, NEW i \in Nat,
           u # None => u.index <= i
    PROVE  /\ OwedAt(u, b, i) \in Nat /\ Gained(u, b, i) \in Nat
           /\ Gained(u, b, i) * SupplyScalar <= OwedAt(u, b, i)
           /\ \A j \in Nat : i <= j =>
                /\ OwedAt(u, b, j) = OwedAt(u, b, i) + (j - i) * b
                /\ Gained(u, b, i) <= Gained(u, b, j)
  <1> USE PoolEmissionsAssumption
  <1>1. CASE u = None
    <2>1. /\ OwedAt(u, b, i) = b * i /\ Gained(u, b, i) = MulFloor(b, i, SupplyScalar)
          /\ b * i \in Nat /\ MulFloor(b, i, SupplyScalar) \in Nat
          /\ MulFloor(b, i, SupplyScalar) * SupplyScalar <= b * i
      BY <1>1, MulFloorBounds, ProductNat DEF OwedAt, Gained
    <2>2. ASSUME NEW j \in Nat, i <= j
          PROVE  /\ OwedAt(u, b, j) = OwedAt(u, b, i) + (j - i) * b
                 /\ Gained(u, b, i) <= Gained(u, b, j)
      <3>1. b * j = b * i + (j - i) * b
        OBVIOUS
      <3>2. MulFloor(b, i, SupplyScalar) <= MulFloor(b, j, SupplyScalar)
        BY <2>2, MulFloorRises
      <3> QED BY <1>1, <2>1, <3>1, <3>2 DEF OwedAt, Gained
    <2> QED BY <2>1, <2>2
  <1>2. CASE u # None
    <2> DEFINE k == u.index
               w == u.accrued
    <2>1. k \in Nat /\ w \in Nat /\ k <= i /\ i - k \in Nat
      BY <1>2 DEF UserEmissionData
    <2>2. /\ OwedAt(u, b, i) = w * SupplyScalar + b * (i - k)
          /\ Gained(u, b, i) = w + MulFloor(b, i - k, SupplyScalar)
      BY <1>2, <2>1 DEF OwedAt, Gained
    <2>3. ASSUME NEW j \in Nat, i <= j
          PROVE  /\ OwedAt(u, b, j) = OwedAt(u, b, i) + (j - i) * b
                 /\ Gained(u, b, i) <= Gained(u, b, j)
      <3>1. /\ OwedAt(u, b, j) = w * SupplyScalar + b * (j - k)
            /\ Gained(u, b, j) = w + MulFloor(b, j - k, SupplyScalar)
            /\ j - k \in Nat /\ i - k <= j - k
        BY <1>2, <2>1, <2>3 DEF OwedAt, Gained
      <3> HIDE DEF k, w
      <3>2. b * (j - k) = b * (j - i) + (i - k) * b
        BY <2>1, SpanSplit
      <3>3. b * (j - i) = (j - i) * b /\ (i - k) * b = b * (i - k)
        BY <2>1
      <3>4. /\ b * (i - k) \in Nat /\ w * SupplyScalar \in Nat /\ (j - i) * b \in Int
        BY <2>1, ProductNat
      <3>5. MulFloor(b, i - k, SupplyScalar) <= MulFloor(b, j - k, SupplyScalar)
        BY <2>1, <3>1, MulFloorRises
      <3>6. MulFloor(b, i - k, SupplyScalar) \in Nat /\ MulFloor(b, j - k, SupplyScalar) \in Nat
        BY <2>1, <3>1, MulFloorBounds
      <3>7. OwedAt(u, b, j) = OwedAt(u, b, i) + (j - i) * b
        BY <2>2, <3>1, <3>2, <3>3, <3>4
      <3> QED BY <2>1, <2>2, <3>1, <3>5, <3>6, <3>7
    <2> HIDE DEF k, w
    <2>4. /\ MulFloor(b, i - k, SupplyScalar) \in Nat
          /\ MulFloor(b, i - k, SupplyScalar) * SupplyScalar <= b * (i - k)
      BY <2>1, MulFloorBounds
    <2> DEFINE m == MulFloor(b, i - k, SupplyScalar)
    <2>5. (w + m) * SupplyScalar = w * SupplyScalar + m * SupplyScalar
      BY <2>1, <2>4
    <2>6. /\ w * SupplyScalar \in Nat /\ b * (i - k) \in Nat /\ m * SupplyScalar \in Nat
          /\ w + m \in Nat
      BY <2>1, <2>4, ProductNat
    <2> HIDE DEF m
    <2>7. /\ OwedAt(u, b, i) \in Nat /\ Gained(u, b, i) \in Nat
          /\ Gained(u, b, i) * SupplyScalar <= OwedAt(u, b, i)
      BY <2>2, <2>4, <2>5, <2>6 DEF m
    <2> QED BY <2>3, <2>7
  <1> QED BY <1>1, <1>2

\* What a holder can claim is what the record has gained at the updated index.
LEMMA DueGained ==
    \A t, h : Due(t, h) = Gained(user_data[t][h], balance[t][h], UpdatedData(t).index)
  BY Zenon DEF Due, Gained

\* What is owed to holders rises with the index by their balances.
LEMMA OwesRises ==
    ASSUME NEW us \in Records, NEW bs \in [Holders -> Nat], NEW i \in Nat, NotAhead(i, us)
    PROVE  /\ Owes(us, bs, i) \in Nat
           /\ [h \in Holders |-> OwedAt(us[h], bs[h], i)] \in [Holders -> Nat]
           /\ \A j \in Nat : i <= j => Owes(us, bs, j) = Owes(us, bs, i) + (j - i) * Total(bs)
  <1> DEFINE at(k) == [h \in Holders |-> OwedAt(us[h], bs[h], k)]
  <1>1. ASSUME NEW h \in Holders
        PROVE  /\ us[h] \in UserEmissionData \cup {None} /\ bs[h] \in Nat
               /\ us[h] # None => us[h].index <= i
    BY DEF Records, NotAhead
  <1>2. at(i) \in [Holders -> Nat]
    BY <1>1, OwedBounds
  <1>3. IsFiniteSet(Holders)
    BY PoolEmissionsAssumption
  <1>4. ASSUME NEW j \in Nat, i <= j
        PROVE  Owes(us, bs, j) = Owes(us, bs, i) + (j - i) * Total(bs)
    <2> DEFINE more == [h \in Holders |-> (j - i) * bs[h]]
    <2>1. j - i \in Nat
      BY <1>4
    <2>2. more \in [Holders -> Nat] /\ Total(more) = (j - i) * Total(bs)
      <3>1. more \in [Holders -> Nat]
        BY <2>1, ProductNat
      <3> QED BY <1>3, <2>1, <3>1, TotalScales
    <2>3. ASSUME NEW h \in Holders
          PROVE  OwedAt(us[h], bs[h], j) = OwedAt(us[h], bs[h], i) + (j - i) * bs[h]
      <3> DEFINE u == us[h]
                 b == bs[h]
      <3> HIDE DEF u, b
      <3>1. /\ u \in UserEmissionData \cup {None} /\ b \in Nat
            /\ u # None => u.index <= i
        BY <1>1 DEF u, b
      <3>2. \A k \in Nat : i <= k => OwedAt(u, b, k) = OwedAt(u, b, i) + (k - i) * b
        BY <3>1, OwedBounds
      <3>3. OwedAt(u, b, j) = OwedAt(u, b, i) + (j - i) * b
        BY <1>4, <3>2
      <3> QED BY <3>3 DEF u, b
    <2>4. at(j) = [h \in Holders |-> at(i)[h] + more[h]]
      BY <2>3
    <2> HIDE DEF more, at
    <2>5. Total(at(j)) = Total(at(i)) + Total(more)
      BY <1>2, <1>3, <2>2, <2>4, TotalAdds
    <2> QED BY <2>2, <2>5 DEF Owes, at
  <1>5. Owes(us, bs, i) \in Nat
    BY <1>2, <1>3, TotalNat DEF Owes
  <1> QED BY <1>2, <1>4, <1>5

\* A holder who is paid n, and no other who gains, takes n from what is owed.
LEMMA OwesPaid ==
    ASSUME NEW us \in Records, NEW vs \in Records,
           NEW bs \in [Holders -> Nat], NEW cs \in [Holders -> Nat], NEW i \in Nat,
           NotAhead(i, us), NotAhead(i, vs), NEW x \in Holders, NEW n \in Nat,
           OwedAt(vs[x], cs[x], i) + n * SupplyScalar <= OwedAt(us[x], bs[x], i),
           \A h \in Holders \ {x} : OwedAt(vs[h], cs[h], i) <= OwedAt(us[h], bs[h], i)
    PROVE  Owes(vs, cs, i) + n * SupplyScalar <= Owes(us, bs, i)
  <1> DEFINE f == [h \in Holders |-> OwedAt(us[h], bs[h], i)]
             g == [h \in Holders |-> OwedAt(vs[h], cs[h], i)]
  <1>1. f \in [Holders -> Nat] /\ g \in [Holders -> Nat]
    BY OwesRises
  <1>2. n * SupplyScalar \in Nat
    BY ProductNat, PoolEmissionsAssumption
  <1>3. g[x] + n * SupplyScalar <= f[x] /\ \A h \in Holders \ {x} : g[h] <= f[h]
    OBVIOUS
  <1> HIDE DEF f, g
  <1>4. Total(g) + n * SupplyScalar <= Total(f)
    BY <1>1, <1>2, <1>3, TotalPays, PoolEmissionsAssumption
  <1> QED BY <1>4 DEF Owes, f, g

\* The records and balances of a token in step with its index.
LEMMA HoldersInStep ==
    ASSUME Books, NEW t \in ReserveTokens, config[t] # None
    PROVE  /\ Typed /\ InStep(t) /\ supply[t] = Total(balance[t])
           /\ user_data[t] \in Records /\ balance[t] \in [Holders -> Nat]
           /\ NotAhead(data[t].index, user_data[t])
           /\ data[t].index \in Nat /\ data[t].last_time \in Nat
           /\ UpdatedData(t).index \in Nat /\ UpdatedData(t).last_time \in Nat
           /\ data[t].index <= UpdatedData(t).index
           /\ NotAhead(UpdatedData(t).index, user_data[t])
  <1>1. Typed /\ InStep(t) /\ supply[t] = Total(balance[t])
    BY DEF Books
  <1>2. /\ user_data[t] \in Records /\ balance[t] \in [Holders -> Nat]
        /\ NotAhead(data[t].index, user_data[t])
    BY <1>1 DEF Typed, Records, InStep, NotAhead
  <1>3. /\ data[t].index \in Nat /\ data[t].last_time \in Nat
        /\ UpdatedData(t).index \in Nat /\ UpdatedData(t).last_time \in Nat
        /\ data[t].index <= UpdatedData(t).index
    BY <1>1, Entries, UpdateTakes
  <1>4. \A h \in Holders : user_data[t][h] # None => user_data[t][h].index \in Nat
    BY <1>1, HoldersTyped
  <1>5. NotAhead(UpdatedData(t).index, user_data[t])
    BY <1>2, <1>3, <1>4 DEF NotAhead
  <1> QED BY <1>1, <1>2, <1>3, <1>5

\* An update promises no more.
LEMMA UpdatePromise ==
    ASSUME Books, NEW t \in ReserveTokens, config[t] # None
    PROVE  LET before == Promise(config[t], data[t], user_data[t], balance[t])
               after == Promise(config[t], UpdatedData(t), user_data[t], balance[t])
           IN  before \in Nat /\ after \in Nat /\ after <= before
  <1> DEFINE d == data[t]
             e == UpdatedData(t)
             a == StillToEmit(config[t], d.last_time)
             b == StillToEmit(config[t], e.last_time)
             n == (e.index - d.index) * supply[t]
             us == user_data[t]
             bs == balance[t]
  <1>1. /\ d.index \in Nat /\ e.index \in Nat /\ d.index <= e.index /\ supply[t] \in Nat
        /\ a \in Nat /\ b \in Nat
        /\ b * SupplyScalar + n <= a * SupplyScalar
    BY UpdateTakes, Entries, HoldersInStep
  <1>2. /\ Owes(us, bs, d.index) \in Nat /\ Owes(us, bs, e.index) \in Nat
        /\ Owes(us, bs, e.index) = Owes(us, bs, d.index) + n
    BY <1>1, HoldersInStep, OwesRises
  <1>3. /\ Promise(config[t], d, us, bs) = a * SupplyScalar + Owes(us, bs, d.index)
        /\ Promise(config[t], e, us, bs) = b * SupplyScalar + Owes(us, bs, e.index)
    BY DEF Promise
  <1>4. a * SupplyScalar \in Nat /\ b * SupplyScalar \in Nat /\ n \in Nat
    <2>1. e.index - d.index \in Nat
      BY <1>1
    <2> HIDE DEF d, e, a, b
    <2> QED BY <1>1, <2>1, ProductNat, PoolEmissionsAssumption
  <1> HIDE DEF d, e, a, b, n, us, bs
  <1>5. /\ Promise(config[t], d, us, bs) \in Nat /\ Promise(config[t], e, us, bs) \in Nat
        /\ Promise(config[t], e, us, bs) <= Promise(config[t], d, us, bs)
    BY <1>1, <1>2, <1>3, <1>4
  <1> QED BY <1>5 DEF d, e, us, bs

\* What a holder can claim is covered by what is owed at the updated index.
LEMMA DueBounds ==
    ASSUME Books, NEW t \in ReserveTokens, NEW h \in Holders, config[t] # None
    PROVE  /\ Due(t, h) \in Nat
           /\ Due(t, h) * SupplyScalar
                <= OwedAt(user_data[t][h], balance[t][h], UpdatedData(t).index)
           /\ OwedAt(user_data[t][h], balance[t][h], UpdatedData(t).index) \in Nat
  <1>1. /\ user_data[t][h] \in UserEmissionData \cup {None} /\ balance[t][h] \in Nat
        /\ UpdatedData(t).index \in Nat
        /\ user_data[t][h] # None => user_data[t][h].index <= UpdatedData(t).index
    BY HoldersInStep DEF Records, NotAhead
  <1> QED BY <1>1, DueGained, OwedBounds

\* A record made at an index owes what it accrued, whatever the balance is then.
LEMMA RecordOwes ==
    ASSUME NEW i \in Nat, NEW n \in Nat, NEW b \in Nat
    PROVE  LET r == [index |-> i, accrued |-> n] IN
           /\ r \in UserEmissionData /\ r # None
           /\ OwedAt(r, b, i) = n * SupplyScalar
           /\ Gained(r, b, i) = n
           /\ \A j \in Nat : i <= j => n <= Gained(r, b, j)
  <1> DEFINE r == [index |-> i, accrued |-> n]
  <1>1. r \in UserEmissionData /\ r # None /\ r.index = i /\ r.accrued = n
    BY NoneAssumption DEF UserEmissionData
  <1> HIDE DEF r
  <1>2. i - i = 0 /\ b * 0 = 0 /\ n * SupplyScalar \in Nat
    BY ProductNat, PoolEmissionsAssumption
  <1>3. MulFloor(b, 0, SupplyScalar) = 0
    BY <1>2, PoolEmissionsAssumption DEF MulFloor
  <1>4. OwedAt(r, b, i) = n * SupplyScalar /\ Gained(r, b, i) = n
    BY <1>1, <1>2, <1>3 DEF OwedAt, Gained
  <1>5. \A j \in Nat : i <= j => Gained(r, b, i) <= Gained(r, b, j)
    BY <1>1, OwedBounds
  <1> QED BY <1>1, <1>4, <1>5 DEF r

\* A token with its data updated promises as much less as one holder is paid.
LEMMA PromisePaid ==
    ASSUME Books, NEW t \in ReserveTokens, config[t] # None,
           NEW vs \in Records, NEW cs \in [Holders -> Nat],
           NotAhead(UpdatedData(t).index, vs), NEW x \in Holders, NEW n \in Nat,
           OwedAt(vs[x], cs[x], UpdatedData(t).index) + n * SupplyScalar
             <= OwedAt(user_data[t][x], balance[t][x], UpdatedData(t).index),
           \A h \in Holders \ {x} :
             OwedAt(vs[h], cs[h], UpdatedData(t).index)
               <= OwedAt(user_data[t][h], balance[t][h], UpdatedData(t).index)
    PROVE  /\ Promise(config[t], UpdatedData(t), vs, cs) \in Nat
           /\ Promise(config[t], UpdatedData(t), vs, cs) + n * SupplyScalar <= PromiseOf(t)
  <1> DEFINE e == UpdatedData(t)
             us == user_data[t]
             bs == balance[t]
             left == StillToEmit(config[t], e.last_time) * SupplyScalar
  <1>1. us \in Records /\ bs \in [Holders -> Nat] /\ e.index \in Nat /\ NotAhead(e.index, us)
    BY HoldersInStep
  <1>2. left \in Nat
    <2>1. StillToEmit(config[t], e.last_time) \in Nat
      BY HoldersInStep, UpdateTakes
    <2> QED BY <2>1, ProductNat, PoolEmissionsAssumption
  <1>3. /\ Owes(us, bs, e.index) \in Nat /\ Owes(vs, cs, e.index) \in Nat
        /\ Owes(vs, cs, e.index) + n * SupplyScalar <= Owes(us, bs, e.index)
    BY <1>1, OwesRises, OwesPaid
  <1>4. /\ Promise(config[t], e, us, bs) = left + Owes(us, bs, e.index)
        /\ Promise(config[t], e, vs, cs) = left + Owes(vs, cs, e.index)
    BY DEF Promise
  <1>5. /\ PromiseOf(t) = Promise(config[t], data[t], us, bs) /\ PromiseOf(t) \in Nat
        /\ Promise(config[t], e, us, bs) \in Nat
        /\ Promise(config[t], e, us, bs) <= PromiseOf(t)
    BY UpdatePromise DEF PromiseOf
  <1>6. n * SupplyScalar \in Nat
    BY ProductNat, PoolEmissionsAssumption
  <1> HIDE DEF left, us, bs
  <1>7. /\ Promise(config[t], e, vs, cs) \in Nat
        /\ Promise(config[t], e, vs, cs) + n * SupplyScalar <= PromiseOf(t)
    <2> HIDE DEF e
    <2> QED BY <1>2, <1>3, <1>4, <1>5, <1>6
  <1> QED BY <1>7
-----------------------------------------------------------------------------
\* The total of a token is a natural number, and its promise is.
LEMMA PromiseNat ==
    ASSUME Books, NEW t \in ReserveTokens
    PROVE  PromiseOf(t) \in Nat
  <1>1. CASE config[t] = None
    BY <1>1 DEF PromiseOf
  <1>2. CASE config[t] # None
    BY <1>2, UpdatePromise DEF PromiseOf
  <1> QED BY <1>1, <1>2

\* What a record is set to before a balance changes.
LEMMA RecordedTyped ==
    ASSUME Books, NEW t \in ReserveTokens, NEW h \in Holders
    PROVE  /\ Recorded(t, h) \in UserEmissionData \cup {None}
           /\ config[t] = None => Recorded(t, h) = None /\ user_data[t][h] = None
           /\ config[t] # None =>
                /\ Recorded(t, h) = [index |-> UpdatedData(t).index, accrued |-> Due(t, h)]
                /\ Recorded(t, h) # None /\ Recorded(t, h).index = UpdatedData(t).index
                /\ Recorded(t, h).accrued = Due(t, h)
                /\ \A b \in Nat : OwedAt(Recorded(t, h), b, UpdatedData(t).index)
                                    <= OwedAt(user_data[t][h], balance[t][h],
                                              UpdatedData(t).index)
  <1>1. CASE config[t] = None
    <2>1. Recorded(t, h) = user_data[t][h]
      BY <1>1 DEF Recorded
    <2>2. user_data[t][h] = None
      BY <1>1 DEF Books, InStep
    <2> QED BY <1>1, <2>1, <2>2
  <1>2. CASE config[t] # None
    <2> DEFINE i == UpdatedData(t).index
               n == Due(t, h)
    <2>1. Recorded(t, h) = [index |-> i, accrued |-> n]
      BY <1>2 DEF Recorded
    <2>2. /\ i \in Nat /\ n \in Nat
          /\ n * SupplyScalar <= OwedAt(user_data[t][h], balance[t][h], i)
      BY <1>2, HoldersInStep, DueBounds
    <2> HIDE DEF i, n
    <2>3. /\ Recorded(t, h) \in UserEmissionData /\ Recorded(t, h) # None
          /\ Recorded(t, h).index = i /\ Recorded(t, h).accrued = n
          /\ \A b \in Nat : OwedAt(Recorded(t, h), b, i) = n * SupplyScalar
      BY <2>1, <2>2, RecordOwes
    <2>4. \A b \in Nat : OwedAt(Recorded(t, h), b, i)
                           <= OwedAt(user_data[t][h], balance[t][h], i)
      BY <2>2, <2>3
    <2> QED BY <1>2, <2>1, <2>3, <2>4 DEF i, n
  <1> QED BY <1>1, <1>2
-----------------------------------------------------------------------------
\* A token that a step leaves alone stays in step and promises what it promised.
LEMMA TokenIdle ==
    ASSUME Books, NEW t \in ReserveTokens, now' \in Nat, now <= now',
           config'[t] = config[t], data'[t] = data[t], user_data'[t] = user_data[t],
           balance'[t] = balance[t], supply'[t] = supply[t]
    PROVE  /\ InStep(t)' /\ supply'[t] = Total(balance'[t])
           /\ PromiseOf(t)' = PromiseOf(t)
  <1>1. Typed /\ InStep(t) /\ supply[t] = Total(balance[t])
    BY DEF Books
  <1>2. data[t] # None => data[t].last_time <= now'
    <2> SUFFICES ASSUME data[t] # None PROVE data[t].last_time <= now'
      OBVIOUS
    <2>1. config[t] # None
      BY <1>1 DEF InStep
    <2> QED BY <1>1, <2>1, Entries
  <1>3. InStep(t)'
    BY <1>1, <1>2 DEF InStep
  <1> QED BY <1>1, <1>3 DEF PromiseOf

\* The update of a token is typed, and keeps its data with its config.
LEMMA UpdatedTyped ==
    ASSUME Books, NEW t \in ReserveTokens
    PROVE  /\ Updated(t) \in ReserveEmissionsData \cup {None}
           /\ config[t] = None <=> Updated(t) = None
           /\ config[t] # None => Updated(t) = UpdatedData(t) /\ Updated(t).last_time <= now
  <1>1. Typed /\ InStep(t)
    BY DEF Books
  <1>2. CASE config[t] = None
    BY <1>1, <1>2 DEF Updated, InStep
  <1>3. CASE config[t] # None
    <2>1. UpdatedData(t) \in ReserveEmissionsData /\ UpdatedData(t).last_time <= now
      BY <1>1, <1>3, UpdateTakes
    <2> QED BY <1>3, <2>1, NoneAssumption DEF Updated
  <1> QED BY <1>2, <1>3

\* A change of balances updates the records of the holders first: they lose nothing,
\* and nothing is promised anew.
LEMMA ChangeKeeps ==
    ASSUME Books, NEW t \in ReserveTokens, NEW bs \in [Holders -> Nat], NEW n \in Nat,
           n = Total(bs), Change(t, bs, n)
    PROVE  Books' /\ \A q \in ReserveTokens : PromiseOf(q)' \in Nat
                                             /\ PromiseOf(q)' <= PromiseOf(q)
  <1> DEFINE vs == [h \in Holders |-> IF bs[h] # balance[t][h] THEN Recorded(t, h)
                                      ELSE user_data[t][h]]
  <1>1. /\ data' = [data EXCEPT ![t] = Updated(t)]
        /\ user_data' = [user_data EXCEPT ![t] = vs]
        /\ balance' = [balance EXCEPT ![t] = bs] /\ supply' = [supply EXCEPT ![t] = n]
        /\ now' = now /\ shares' = shares /\ config' = config
        /\ pending' = pending /\ allowance' = allowance /\ lapsed' = lapsed
    BY Zenon DEF Change, backstop
  <1>2. Typed /\ now \in Nat
    BY DEF Books, Typed
  <1>3. vs \in Records
    BY RecordedTyped, HoldersTyped, <1>2 DEF Records
  <1> HIDE DEF vs
  <1>4. Typed'
    <2>1. data' \in [ReserveTokens -> ReserveEmissionsData \cup {None}]
      BY <1>1, <1>2, UpdatedTyped DEF Typed
    <2>2. user_data' \in [ReserveTokens -> [Holders -> UserEmissionData \cup {None}]]
      BY <1>1, <1>2, <1>3 DEF Typed, Records
    <2>3. /\ balance' \in [ReserveTokens -> [Holders -> Nat]]
          /\ supply' \in [ReserveTokens -> Nat]
      BY <1>1, <1>2 DEF Typed
    <2> QED BY <1>1, <1>2, <2>1, <2>2, <2>3 DEF Typed
  <1>5. /\ data'[t] = Updated(t) /\ user_data'[t] = vs /\ balance'[t] = bs /\ supply'[t] = n
        /\ \A q \in ReserveTokens \ {t} :
             /\ data'[q] = data[q] /\ user_data'[q] = user_data[q]
             /\ balance'[q] = balance[q] /\ supply'[q] = supply[q]
    BY <1>1, <1>2 DEF Typed
  <1>6. ASSUME NEW q \in ReserveTokens, q # t
        PROVE  /\ InStep(q)' /\ supply'[q] = Total(balance'[q])
               /\ PromiseOf(q)' = PromiseOf(q)
    <2>1. now' \in Nat /\ now <= now'
      BY <1>1, <1>2
    <2>2. /\ config'[q] = config[q] /\ data'[q] = data[q] /\ user_data'[q] = user_data[q]
          /\ balance'[q] = balance[q] /\ supply'[q] = supply[q]
      BY <1>1, <1>5, <1>6
    <2> QED BY <2>1, <2>2, TokenIdle
  <1>7. InStep(t)' /\ PromiseOf(t)' \in Nat /\ PromiseOf(t)' <= PromiseOf(t)
    <2>1. CASE config[t] = None
      <3>1. \A h \in Holders : vs[h] = None
        BY <2>1, RecordedTyped DEF vs
      <3>2. config'[t] = None /\ data'[t] = None
        BY <1>1, <1>5, <2>1, UpdatedTyped
      <3>3. InStep(t)'
        BY <1>5, <3>1, <3>2 DEF InStep
      <3>4. PromiseOf(t)' = 0 /\ PromiseOf(t) = 0
        BY <2>1, <3>2 DEF PromiseOf
      <3> QED BY <3>3, <3>4
    <2>2. CASE config[t] # None
      <3> DEFINE i == UpdatedData(t).index
      <3>1. /\ config'[t] = config[t] /\ data'[t] = UpdatedData(t) /\ data'[t] # None
            /\ data'[t].last_time <= now'
        BY <1>1, <1>5, <2>2, UpdatedTyped
      <3>2. /\ user_data[t] \in Records /\ NotAhead(i, user_data[t]) /\ i \in Nat
            /\ balance[t] \in [Holders -> Nat]
        BY <2>2, HoldersInStep
      <3>3. ASSUME NEW h \in Holders
            PROVE  /\ vs[h] # None => vs[h].index <= i
                   /\ OwedAt(vs[h], bs[h], i) <= OwedAt(user_data[t][h], balance[t][h], i)
                   /\ OwedAt(user_data[t][h], balance[t][h], i) \in Nat
        <4>1. bs[h] \in Nat
          OBVIOUS
        <4>2. OwedAt(user_data[t][h], balance[t][h], i) \in Nat
          BY <2>2, DueBounds
        <4>3. CASE bs[h] # balance[t][h]
          <5>1. vs[h] = Recorded(t, h)
            BY <4>3 DEF vs
          <5> QED BY <2>2, <3>2, <4>1, <4>2, <5>1, RecordedTyped
        <4>4. CASE bs[h] = balance[t][h]
          <5>1. vs[h] = user_data[t][h]
            BY <4>4 DEF vs
          <5> QED BY <3>2, <4>2, <4>4, <5>1 DEF NotAhead
        <4> QED BY <4>3, <4>4
      <3>4. NotAhead(i, vs)
        BY <3>3 DEF NotAhead
      <3>5. InStep(t)'
        BY <1>5, <2>2, <3>1, <3>3 DEF InStep
      <3>6. /\ Promise(config[t], UpdatedData(t), vs, bs) \in Nat
            /\ Promise(config[t], UpdatedData(t), vs, bs) <= PromiseOf(t)
        <4>1. CASE Holders = {}
          <5>1. vs = user_data[t] /\ bs = balance[t]
            BY <1>3, <3>2, <4>1 DEF Records
          <5> QED BY <2>2, <5>1, UpdatePromise DEF PromiseOf
        <4>2. CASE Holders # {}
          <5>1. PICK x \in Holders : TRUE
            BY <4>2
          <5>2. 0 * SupplyScalar = 0 /\ 0 \in Nat
            BY PoolEmissionsAssumption
          <5>3. /\ OwedAt(vs[x], bs[x], i) \in Nat
                /\ OwedAt(vs[x], bs[x], i) + 0 * SupplyScalar
                     <= OwedAt(user_data[t][x], balance[t][x], i)
            <6>1. OwedAt(vs[x], bs[x], i) \in Nat
              BY <1>3, <3>2, <3>3, OwedBounds DEF Records
            <6> QED BY <3>3, <5>2, <6>1
          <5>4. /\ Promise(config[t], UpdatedData(t), vs, bs) \in Nat
                /\ Promise(config[t], UpdatedData(t), vs, bs) + 0 * SupplyScalar
                     <= PromiseOf(t)
            BY <1>3, <2>2, <3>3, <3>4, <5>2, <5>3, PromisePaid
          <5> QED BY <5>2, <5>4
        <4> QED BY <4>1, <4>2
      <3>7. PromiseOf(t)' = Promise(config[t], UpdatedData(t), vs, bs)
        BY <1>5, <2>2, <3>1 DEF PromiseOf
      <3> QED BY <3>5, <3>6, <3>7
    <2> QED BY <2>1, <2>2
  <1>8. Books'
    <2>1. [q \in ReserveTokens |-> ShareOf(q)]' = [q \in ReserveTokens |-> ShareOf(q)]
      BY <1>1 DEF ShareOf
    <2>2. Total([q \in ReserveTokens |-> ShareOf(q)])' <= Scalar7
      BY <2>1 DEF Books
    <2>3. \A q \in ReserveTokens : InStep(q)' /\ supply'[q] = Total(balance'[q])
      BY <1>5, <1>6, <1>7
    <2> QED BY <1>4, <2>2, <2>3 DEF Books
  <1>9. ASSUME NEW q \in ReserveTokens
        PROVE  PromiseOf(q)' \in Nat /\ PromiseOf(q)' <= PromiseOf(q)
    BY <1>6, <1>7, PromiseNat
  <1> QED BY <1>8, <1>9

\* A mint, a burn and a move keep the supply the total of the balances.
LEMMA MintChanges ==
    ASSUME Books, NEW t \in ReserveTokens, NEW h \in Holders, NEW n \in Amounts, Mint(t, h, n)
    PROVE  \E bs \in [Holders -> Nat] : Change(t, bs, Total(bs))
  <1> DEFINE old == balance[t]
             bs == [old EXCEPT ![h] = @ + n]
  <1>1. /\ old \in [Holders -> Nat] /\ supply[t] = Total(old) /\ n \in Nat
        /\ IsFiniteSet(Holders)
    BY PoolEmissionsAssumption DEF Books, Typed
  <1>2. Change(t, bs, supply[t] + n)
    BY DEF Mint
  <1>3. /\ bs \in [Holders -> Nat] /\ bs[h] = old[h] + n
        /\ \A k \in Holders \ {h} : bs[k] = old[k]
    BY <1>1
  <1> HIDE DEF old, bs
  <1>4. Total(bs) = Total(old) + bs[h] - old[h] /\ Total(old) \in Nat /\ old[h] \in Nat
    BY <1>1, <1>3, TotalFollows, TotalNat
  <1>5. Total(bs) = supply[t] + n
    BY <1>1, <1>3, <1>4
  <1> QED BY <1>2, <1>3, <1>5

\* A burn is of no more than the holder has.
LEMMA BurnChanges ==
    ASSUME Books, NEW t \in ReserveTokens, NEW h \in Holders, NEW n \in Amounts, Burn(t, h, n)
    PROVE  \E bs \in [Holders -> Nat] : Change(t, bs, Total(bs))
  <1> DEFINE old == balance[t]
             bs == [old EXCEPT ![h] = @ - n]
  <1>1. /\ old \in [Holders -> Nat] /\ supply[t] = Total(old) /\ n \in Nat
        /\ IsFiniteSet(Holders)
    BY PoolEmissionsAssumption DEF Books, Typed
  <1>2. Change(t, bs, supply[t] - n) /\ old[h] >= n
    BY DEF Burn
  <1>3. /\ bs \in [Holders -> Nat] /\ bs[h] = old[h] - n
        /\ \A k \in Holders \ {h} : bs[k] = old[k]
    BY <1>1, <1>2
  <1> HIDE DEF old, bs
  <1>4. Total(bs) = Total(old) + bs[h] - old[h] /\ Total(old) \in Nat /\ old[h] \in Nat
    BY <1>1, <1>3, TotalFollows, TotalNat
  <1>5. Total(bs) = supply[t] - n
    BY <1>1, <1>3, <1>4
  <1> QED BY <1>2, <1>3, <1>5

\* A move takes from one holder what it gives another.
LEMMA MoveChanges ==
    ASSUME Books, NEW t \in ReserveTokens, NEW h \in Holders, NEW to \in Holders,
           NEW n \in Amounts, Move(t, h, to, n)
    PROVE  \E bs \in [Holders -> Nat] : Change(t, bs, Total(bs))
  <1> DEFINE old == balance[t]
             mid == [old EXCEPT ![h] = @ - n]
             bs == [old EXCEPT ![h] = @ - n, ![to] = @ + n]
  <1>1. /\ old \in [Holders -> Nat] /\ supply[t] = Total(old) /\ n \in Nat
        /\ IsFiniteSet(Holders)
    BY PoolEmissionsAssumption DEF Books, Typed
  <1>2. Change(t, bs, supply[t]) /\ old[h] >= n /\ h # to
    BY DEF Move
  <1>3. /\ mid \in [Holders -> Nat] /\ mid[h] = old[h] - n /\ mid[to] = old[to]
        /\ \A k \in Holders \ {h} : mid[k] = old[k]
    BY <1>1, <1>2
  <1>4. /\ bs \in [Holders -> Nat] /\ bs[to] = old[to] + n
        /\ \A k \in Holders \ {to} : bs[k] = mid[k]
    BY <1>1, <1>2
  <1> HIDE DEF old, mid, bs
  <1>5. Total(mid) = Total(old) + mid[h] - old[h] /\ Total(old) \in Nat /\ old[h] \in Nat
    BY <1>1, <1>3, TotalFollows, TotalNat
  <1>6. Total(bs) = Total(mid) + bs[to] - mid[to] /\ Total(mid) \in Nat /\ old[to] \in Nat
    BY <1>1, <1>3, <1>4, TotalFollows, TotalNat
  <1>7. Total(bs) = supply[t]
    BY <1>1, <1>3, <1>4, <1>5, <1>6
  <1> QED BY <1>2, <1>4, <1>7

\* A claim is paid out of the promises of the tokens it lists.
LEMMA ClaimKeeps ==
    ASSUME Books, NEW from \in Holders, NEW ids \in SUBSET ReserveTokens,
           NEW delivered \in BOOLEAN, Claim(from, ids, delivered)
    PROVE  /\ Books'
           /\ \A t \in ReserveTokens :
                LET out == IF t \in ids /\ config[t] # None THEN Due(t, from) ELSE 0 IN
                /\ PromiseOf(t)' \in Nat /\ out \in Nat
                /\ PromiseOf(t)' + out * SupplyScalar <= PromiseOf(t)
  <1> DEFINE live == {t \in ids : config[t] # None}
             to_claim == SumFunction([t \in live |-> Due(t, from)])
             row(t) == [user_data[t] EXCEPT ![from] =
                          [index |-> UpdatedData(t).index, accrued |-> 0]]
             out(t) == IF t \in ids /\ config[t] # None THEN Due(t, from) ELSE 0
  <1>1. /\ data' = [t \in ReserveTokens |-> IF t \in live THEN UpdatedData(t) ELSE data[t]]
        /\ user_data' = [t \in ReserveTokens |-> IF t \notin live THEN user_data[t]
                                                 ELSE row(t)]
        /\ allowance' = IF delivered /\ to_claim <= allowance
                        THEN allowance - to_claim ELSE allowance
        /\ now' = now /\ shares' = shares /\ config' = config
        /\ balance' = balance /\ supply' = supply /\ pending' = pending /\ lapsed' = lapsed
    BY Zenon DEF Claim, tokens
  <1>2. Typed /\ now \in Nat /\ allowance \in Nat
    BY DEF Books, Typed
  <1>3. live \subseteq ReserveTokens /\ \A t \in ReserveTokens : Due(t, from) \in Nat \/ t \notin live
    BY DueBounds
  <1>4. to_claim \in Nat
    <2> DEFINE f == [t \in live |-> Due(t, from)]
    <2>1. f \in [live -> Nat]
      BY <1>3
    <2>2. IsFiniteSet(live)
      BY <1>3, FS_Subset, PoolEmissionsAssumption
    <2> HIDE DEF f, live
    <2> QED BY <2>1, <2>2, TotalNat, SumIsTotal DEF f
  <1>5. allowance' \in Nat
    <2> HIDE DEF to_claim
    <2> QED BY <1>1, <1>2, <1>4
  <1>6. ASSUME NEW t \in live
        PROVE  LET r == [index |-> UpdatedData(t).index, accrued |-> 0]
               IN  /\ UpdatedData(t).index \in Nat
                   /\ r \in UserEmissionData /\ r # None
                   /\ OwedAt(r, balance[t][from], UpdatedData(t).index) = 0
    <2> DEFINE i == UpdatedData(t).index
               b == balance[t][from]
               r == [index |-> i, accrued |-> 0]
    <2>1. i \in Nat /\ b \in Nat /\ 0 \in Nat /\ 0 * SupplyScalar = 0
      BY <1>2, HoldersInStep, PoolEmissionsAssumption DEF Typed
    <2> HIDE DEF i, b
    <2>2. r \in UserEmissionData /\ r # None /\ OwedAt(r, b, i) = 0 * SupplyScalar
      BY <2>1, RecordOwes
    <2> QED BY <2>1, <2>2 DEF i, b
  <1>7. Typed'
    <2>1. data' \in [ReserveTokens -> ReserveEmissionsData \cup {None}]
      <3>1. \A t \in live : UpdatedData(t) \in ReserveEmissionsData
        BY UpdatedTyped, NoneAssumption
      <3> HIDE DEF live
      <3> QED BY <1>1, <1>2, <3>1 DEF Typed
    <2>2. user_data' \in [ReserveTokens -> [Holders -> UserEmissionData \cup {None}]]
      <3>1. \A t \in ReserveTokens : user_data[t] \in [Holders -> UserEmissionData \cup {None}]
        BY <1>2 DEF Typed
      <3>2. ASSUME NEW t \in live
            PROVE  row(t) \in [Holders -> UserEmissionData \cup {None}]
        BY <1>3, <1>6, <3>1
      <3> HIDE DEF live, row
      <3> QED BY <1>1, <3>1, <3>2
    <2> QED BY <1>1, <1>2, <1>5, <2>1, <2>2 DEF Typed
  <1>8. ASSUME NEW t \in ReserveTokens, t \notin live
        PROVE  /\ InStep(t)' /\ supply'[t] = Total(balance'[t])
               /\ PromiseOf(t)' = PromiseOf(t) /\ out(t) = 0
    <2>1. now' \in Nat /\ now <= now'
      BY <1>1, <1>2
    <2>2. /\ config'[t] = config[t] /\ data'[t] = data[t] /\ user_data'[t] = user_data[t]
          /\ balance'[t] = balance[t] /\ supply'[t] = supply[t]
      BY <1>1, <1>8
    <2> QED BY <1>8, <2>1, <2>2, TokenIdle
  <1>9. ASSUME NEW t \in live
        PROVE  /\ InStep(t)' /\ supply'[t] = Total(balance'[t])
               /\ PromiseOf(t)' \in Nat /\ out(t) \in Nat /\ out(t) = Due(t, from)
               /\ PromiseOf(t)' + out(t) * SupplyScalar <= PromiseOf(t)
    <2> DEFINE i == UpdatedData(t).index
               vs == row(t)
    <2>1. /\ t \in ReserveTokens /\ config[t] # None /\ out(t) = Due(t, from)
          /\ Due(t, from) \in Nat
      BY <1>3
    <2>2. /\ data'[t] = UpdatedData(t) /\ user_data'[t] = vs /\ config'[t] = config[t]
          /\ balance'[t] = balance[t] /\ supply'[t] = supply[t] /\ now' = now
      BY <1>1, <2>1
    <2>3. /\ user_data[t] \in Records /\ NotAhead(i, user_data[t]) /\ i \in Nat
          /\ balance[t] \in [Holders -> Nat] /\ supply[t] = Total(balance[t])
      BY <2>1, HoldersInStep
    <2>4. /\ vs \in Records /\ vs[from] = [index |-> i, accrued |-> 0]
          /\ \A h \in Holders \ {from} : vs[h] = user_data[t][h]
      BY <1>6, <2>3 DEF Records
    <2> HIDE DEF vs
    <2>5. NotAhead(i, vs)
      BY <2>3, <2>4 DEF NotAhead
    <2>6. UpdatedData(t) # None /\ UpdatedData(t).last_time <= now
      BY <2>1, UpdatedTyped
    <2>7. InStep(t)'
      BY <2>1, <2>2, <2>5, <2>6 DEF InStep, NotAhead
    <2>8. OwedAt(vs[from], balance[t][from], i) + Due(t, from) * SupplyScalar
            <= OwedAt(user_data[t][from], balance[t][from], i)
      <3>1. OwedAt(vs[from], balance[t][from], i) = 0
        BY <1>6, <2>4
      <3>2. Due(t, from) * SupplyScalar \in Nat
        BY <2>1, ProductNat, PoolEmissionsAssumption
      <3>3. Due(t, from) * SupplyScalar <= OwedAt(user_data[t][from], balance[t][from], i)
        BY <2>1, DueBounds
      <3> QED BY <3>1, <3>2, <3>3
    <2>9. \A h \in Holders \ {from} : OwedAt(vs[h], balance[t][h], i)
                                        <= OwedAt(user_data[t][h], balance[t][h], i)
      <3> SUFFICES ASSUME NEW h \in Holders, h # from
                   PROVE  OwedAt(vs[h], balance[t][h], i)
                            <= OwedAt(user_data[t][h], balance[t][h], i)
        OBVIOUS
      <3>1. OwedAt(user_data[t][h], balance[t][h], i) \in Nat
        BY <2>1, DueBounds
      <3> QED BY <2>4, <3>1
    <2>10. /\ Promise(config[t], UpdatedData(t), vs, balance[t]) \in Nat
           /\ Promise(config[t], UpdatedData(t), vs, balance[t]) + Due(t, from) * SupplyScalar
                <= PromiseOf(t)
      BY <2>1, <2>3, <2>4, <2>5, <2>8, <2>9, PromisePaid
    <2>11. PromiseOf(t)' = Promise(config[t], UpdatedData(t), vs, balance[t])
      BY <2>1, <2>2 DEF PromiseOf
    <2> QED BY <2>1, <2>2, <2>3, <2>7, <2>10, <2>11
  <1>10. Books'
    <2>1. [q \in ReserveTokens |-> ShareOf(q)]' = [q \in ReserveTokens |-> ShareOf(q)]
      BY <1>1 DEF ShareOf
    <2>2. Total([q \in ReserveTokens |-> ShareOf(q)])' <= Scalar7
      BY <2>1 DEF Books
    <2> QED BY <1>7, <1>8, <1>9, <2>2 DEF Books
  <1>11. ASSUME NEW t \in ReserveTokens
         PROVE  /\ PromiseOf(t)' \in Nat /\ out(t) \in Nat
                /\ PromiseOf(t)' + out(t) * SupplyScalar <= PromiseOf(t)
    <2>1. CASE t \in live
      BY <1>9, <2>1
    <2>2. CASE t \notin live
      <3>1. 0 * SupplyScalar = 0
        BY PoolEmissionsAssumption
      <3>2. /\ PromiseOf(t)' = PromiseOf(t) /\ out(t) = 0 /\ PromiseOf(t) \in Nat
        BY <1>8, <2>2, PromiseNat
      <3> QED BY <3>1, <3>2
    <2> QED BY <2>1, <2>2
  <1> QED BY <1>10, <1>11
-----------------------------------------------------------------------------
\* What gulp_emissions gives a token.
PartOf(t) == MulFloor(ShareOf(t), pending, Scalar7)

\* The parts of what is gulped are together no more.
LEMMA PartsBounded ==
    ASSUME Books
    PROVE  /\ \A t \in ReserveTokens : ShareOf(t) \in Nat /\ PartOf(t) \in Nat
           /\ [t \in ReserveTokens |-> PartOf(t)] \in [ReserveTokens -> Nat]
           /\ Total([t \in ReserveTokens |-> PartOf(t)]) <= pending
           /\ pending \in Nat
  <1> DEFINE share == [t \in ReserveTokens |-> ShareOf(t)]
  <1>1. \A t \in ReserveTokens : ShareOf(t) \in Nat
    BY DEF Books, Typed, ShareOf
  <1>2. share \in [ReserveTokens -> Nat] /\ Total(share) <= Scalar7 /\ pending \in Nat
        /\ Scalar7 \in Nat \ {0} /\ IsFiniteSet(ReserveTokens)
    BY <1>1, PoolConstantsAssumption, PoolEmissionsAssumption DEF Books, Typed
  <1>3. \A t \in ReserveTokens : /\ PartOf(t) \in Nat
                                 /\ PartOf(t) * Scalar7 <= share[t] * pending
    BY <1>1, <1>2, MulFloorBounds DEF PartOf
  <1> DEFINE part == [t \in ReserveTokens |-> PartOf(t)]
  <1>4. part \in [ReserveTokens -> Nat]
        /\ \A t \in ReserveTokens : part[t] * Scalar7 <= share[t] * pending
    BY <1>3
  <1> HIDE DEF part, share
  <1>5. Total(part) <= pending
    BY <1>2, <1>4, TotalParts
  <1> QED BY <1>1, <1>2, <1>3, <1>4, <1>5 DEF part

\* A new stream emits its part and what the replaced stream had left.
LEMMA NewStream ==
    ASSUME Books, NEW t \in ReserveTokens
    PROVE  LET new == PartOf(t) + LeftToEmit(t)
               c == [expiration |-> now + Week, eps |-> new \div Week]
           IN  /\ LeftToEmit(t) \in Nat /\ c \in ReserveEmissionsConfig /\ c # None
               /\ StillToEmit(c, now) \in Nat /\ StillToEmit(c, now) <= new
               /\ config[t] # None =>
                    LeftToEmit(t) <= StillToEmit(config[t], UpdatedData(t).last_time)
  <1> DEFINE new == PartOf(t) + LeftToEmit(t)
             eps == new \div Week
             c == [expiration |-> now + Week, eps |-> eps]
  <1>1. now \in Nat /\ Week \in Nat \ {0} /\ PartOf(t) \in Nat
    BY PartsBounded, PoolEmissionsAssumption DEF Books, Typed
  <1>2. LeftToEmit(t) \in Nat
    <2>1. CASE config[t] = None \/ config[t].expiration <= now
      BY <2>1 DEF LeftToEmit
    <2>2. CASE ~(config[t] = None \/ config[t].expiration <= now)
      <3>1. config[t].eps \in Nat /\ config[t].expiration \in Nat
        BY <2>2, Entries DEF Books
      <3>2. config[t].expiration - now \in Nat
        BY <1>1, <2>2, <3>1
      <3> QED BY <2>2, <3>1, <3>2, ProductNat DEF LeftToEmit
    <2> QED BY <2>1, <2>2
  <1>3. new \in Nat
    BY <1>1, <1>2
  <1> HIDE DEF new
  <1>4. eps \in Nat /\ eps * Week <= new
    BY <1>1, <1>3, Quotient
  <1> HIDE DEF eps
  <1>5. c \in ReserveEmissionsConfig /\ c # None /\ c.expiration = now + Week /\ c.eps = eps
    BY <1>1, <1>4, NoneAssumption DEF ReserveEmissionsConfig
  <1> HIDE DEF c
  <1>6. StillToEmit(c, now) = eps * Week
    <2>1. now + Week - now = Week /\ ~(now + Week <= now)
      BY <1>1
    <2> QED BY <1>1, <1>4, <1>5, <2>1 DEF StillToEmit
  <1>7. StillToEmit(c, now) \in Nat /\ StillToEmit(c, now) <= new
    <2>1. eps * Week \in Nat
      BY <1>1, <1>4, ProductNat
    <2> QED BY <1>4, <1>6, <2>1
  <1>8. ASSUME config[t] # None
        PROVE  LeftToEmit(t) <= StillToEmit(config[t], UpdatedData(t).last_time)
    <2> DEFINE l == UpdatedData(t).last_time
               x == config[t].expiration
               e == config[t].eps
    <2>1. /\ l \in Nat /\ l <= now /\ x \in Nat /\ e \in Nat
          /\ StillToEmit(config[t], l) \in Nat
      BY <1>8, Entries, UpdateTakes DEF Books
    <2>2. CASE x <= now
      <3>1. LeftToEmit(t) = 0
        BY <2>2 DEF LeftToEmit
      <3> QED BY <2>1, <3>1
    <2>3. CASE ~(x <= now)
      <3>1. LeftToEmit(t) = e * (x - now)
        BY <1>8, <2>3 DEF LeftToEmit
      <3>2. StillToEmit(config[t], l) = e * (x - l)
        BY <1>1, <2>1, <2>3 DEF StillToEmit
      <3> HIDE DEF l, x, e
      <3>3. e * (x - now) <= e * (x - l)
        <4>1. x - now \in Int /\ x - l \in Int /\ x - now <= x - l
          BY <1>1, <2>1
        <4> QED BY <2>1, <4>1, ProductGrows
      <3> QED BY <3>1, <3>2, <3>3 DEF l
    <2> QED BY <2>2, <2>3
  <1> QED BY <1>2, <1>5, <1>7, <1>8 DEF new, c, eps

\* gulp_emissions promises no more than what it gulps on top of what is promised.
LEMMA GulpKeeps ==
    ASSUME Books, GulpEmissions
    PROVE  /\ Books'
           /\ \A t \in ReserveTokens :
                /\ PromiseOf(t)' \in Nat
                /\ PromiseOf(t)' <= PromiseOf(t) + PartOf(t) * SupplyScalar
  <1> DEFINE new(t) == PartOf(t) + LeftToEmit(t)
             c(t) == [expiration |-> now + Week, eps |-> new(t) \div Week]
             d(t) == [index |-> RestartedIndex(t), last_time |-> now]
  <1>1. /\ config' = [t \in ReserveTokens |-> IF t \in DOMAIN shares
                        THEN [expiration |-> now + Week,
                              eps |-> (MulFloor(shares[t], pending, Scalar7)
                                         + LeftToEmit(t)) \div Week]
                        ELSE config[t]]
        /\ data' = [t \in ReserveTokens |-> IF t \in DOMAIN shares THEN d(t) ELSE data[t]]
        /\ allowance' = allowance + pending /\ pending' = 0
        /\ now' = now /\ shares' = shares /\ user_data' = user_data
        /\ balance' = balance /\ supply' = supply /\ lapsed' = lapsed
    BY Zenon DEF GulpEmissions, tokens
  <1>2. /\ Typed /\ now \in Nat /\ pending \in Nat /\ allowance \in Nat
        /\ DOMAIN shares \subseteq ReserveTokens /\ 0 \in Nat
    BY DEF Books, Typed
  <1>3. \A t \in ReserveTokens :
          config'[t] = IF t \in DOMAIN shares THEN c(t) ELSE config[t]
    BY <1>1 DEF PartOf, ShareOf
  <1>4. ASSUME NEW t \in ReserveTokens
        PROVE  /\ RestartedIndex(t) \in Nat
               /\ d(t) \in ReserveEmissionsData /\ d(t) # None
               /\ d(t).last_time = now /\ d(t).index = RestartedIndex(t)
    <2>1. RestartedIndex(t) \in Nat
      BY HoldersInStep DEF RestartedIndex
    <2> QED BY <1>2, <2>1, NoneAssumption DEF ReserveEmissionsData
  <1> HIDE DEF d
  <1>5. ASSUME NEW t \in ReserveTokens
        PROVE  c(t) \in ReserveEmissionsConfig /\ c(t) # None
    BY NewStream
  <1> HIDE DEF c
  <1>6. Typed'
    <2>1. config' \in [ReserveTokens -> ReserveEmissionsConfig \cup {None}]
      <3>1. DOMAIN config' = ReserveTokens /\ config' = [t \in ReserveTokens |-> config'[t]]
        BY <1>1
      <3>2. \A t \in ReserveTokens : config'[t] \in ReserveEmissionsConfig \cup {None}
        BY <1>2, <1>3, <1>5 DEF Typed
      <3> QED BY <3>1, <3>2
    <2>2. data' \in [ReserveTokens -> ReserveEmissionsData \cup {None}]
      BY <1>1, <1>2, <1>4 DEF Typed
    <2> QED BY <1>1, <1>2, <2>1, <2>2 DEF Typed
  <1>7. ASSUME NEW t \in ReserveTokens, t \notin DOMAIN shares
        PROVE  /\ InStep(t)' /\ supply'[t] = Total(balance'[t]) /\ PromiseOf(t)' \in Nat
               /\ PromiseOf(t)' <= PromiseOf(t) + PartOf(t) * SupplyScalar
    <2>1. /\ config'[t] = config[t] /\ data'[t] = data[t] /\ user_data'[t] = user_data[t]
          /\ balance'[t] = balance[t] /\ supply'[t] = supply[t]
          /\ now' \in Nat /\ now <= now'
      BY <1>1, <1>2, <1>3, <1>7
    <2>2. InStep(t)' /\ supply'[t] = Total(balance'[t]) /\ PromiseOf(t)' = PromiseOf(t)
      BY <2>1, TokenIdle
    <2>3. PromiseOf(t) \in Nat /\ PartOf(t) * SupplyScalar \in Nat
      BY PromiseNat, PartsBounded, ProductNat, PoolEmissionsAssumption
    <2> QED BY <2>2, <2>3
  <1>8. ASSUME NEW t \in ReserveTokens, t \in DOMAIN shares
        PROVE  /\ InStep(t)' /\ supply'[t] = Total(balance'[t]) /\ PromiseOf(t)' \in Nat
               /\ PromiseOf(t)' <= PromiseOf(t) + PartOf(t) * SupplyScalar
    <2> DEFINE us == user_data[t]
               bs == balance[t]
               i == RestartedIndex(t)
               left == StillToEmit(c(t), now)
    <2>1. /\ config'[t] = c(t) /\ data'[t] = d(t) /\ c(t) # None /\ d(t) # None
          /\ d(t).last_time = now /\ d(t).index = i /\ i \in Nat /\ now' = now
          /\ user_data'[t] = us /\ balance'[t] = bs /\ supply'[t] = supply[t]
      BY <1>1, <1>3, <1>4, <1>5, <1>8
    <2>2. us \in Records /\ bs \in [Holders -> Nat] /\ supply[t] = Total(bs)
      BY DEF Books, Typed, Records
    <2>3. NotAhead(i, us)
      <3>1. CASE config[t] = None
        BY <3>1 DEF Books, InStep, NotAhead
      <3>2. CASE config[t] # None
        BY <3>2, HoldersInStep DEF RestartedIndex
      <3> QED BY <3>1, <3>2
    <2>4. InStep(t)'
      BY <1>2, <2>1, <2>3 DEF InStep, NotAhead
    <2>5. left \in Nat /\ left <= PartOf(t) + LeftToEmit(t) /\ LeftToEmit(t) \in Nat
          /\ PartOf(t) \in Nat /\ Owes(us, bs, i) \in Nat
      BY <2>1, <2>2, <2>3, NewStream, PartsBounded, OwesRises DEF c, new
    <2>6. PromiseOf(t)' = left * SupplyScalar + Owes(us, bs, i)
      BY <2>1 DEF PromiseOf, Promise
    <2>7. LeftToEmit(t) * SupplyScalar + Owes(us, bs, i) <= PromiseOf(t)
      <3>1. CASE config[t] = None
        <4>1. LeftToEmit(t) = 0 /\ PromiseOf(t) = 0 /\ i = 0
          BY <3>1 DEF LeftToEmit, PromiseOf, RestartedIndex
        <4>2. \A h \in Holders : us[h] = None
          BY <3>1 DEF Books, InStep
        <4>3. [h \in Holders |-> OwedAt(us[h], bs[h], 0)] = [h \in Holders |-> 0]
          <5>1. \A h \in Holders : OwedAt(us[h], bs[h], 0) = 0
            BY <2>2, <4>2 DEF OwedAt
          <5> QED BY <5>1
        <4>4. Owes(us, bs, 0) = 0
          BY <4>3, TotalZero, PoolEmissionsAssumption DEF Owes
        <4>5. 0 * SupplyScalar = 0
          BY PoolEmissionsAssumption
        <4> QED BY <4>1, <4>4, <4>5
      <3>2. CASE config[t] # None
        <4> DEFINE rest == StillToEmit(config[t], UpdatedData(t).last_time)
        <4>1. rest \in Nat /\ LeftToEmit(t) <= rest
          BY <3>2, NewStream, UpdateTakes DEF Books
        <4>2. i = UpdatedData(t).index
          BY <3>2 DEF RestartedIndex
        <4>3. rest * SupplyScalar + Owes(us, bs, i) <= PromiseOf(t)
          BY <3>2, <4>2, UpdatePromise DEF PromiseOf, Promise
        <4> HIDE DEF rest, us, bs, i
        <4>4. LeftToEmit(t) * SupplyScalar <= rest * SupplyScalar
          BY <2>5, <4>1, ProductGrows, PoolEmissionsAssumption
        <4>5. /\ LeftToEmit(t) * SupplyScalar \in Nat /\ rest * SupplyScalar \in Nat
              /\ PromiseOf(t) \in Nat
          BY <2>5, <4>1, ProductNat, PoolEmissionsAssumption, PromiseNat
        <4> QED BY <2>5, <4>3, <4>4, <4>5
      <3> QED BY <3>1, <3>2
    <2> HIDE DEF us, bs, i, left
    <2>8. left * SupplyScalar <= PartOf(t) * SupplyScalar + LeftToEmit(t) * SupplyScalar
      <3>1. left * SupplyScalar <= (PartOf(t) + LeftToEmit(t)) * SupplyScalar
        BY <2>5, ProductGrows, PoolEmissionsAssumption
      <3>2. (PartOf(t) + LeftToEmit(t)) * SupplyScalar
              = PartOf(t) * SupplyScalar + LeftToEmit(t) * SupplyScalar
        BY <2>5, PoolEmissionsAssumption
      <3> QED BY <3>1, <3>2
    <2>9. /\ left * SupplyScalar \in Nat /\ PartOf(t) * SupplyScalar \in Nat
          /\ LeftToEmit(t) * SupplyScalar \in Nat /\ PromiseOf(t) \in Nat
      BY <2>5, ProductNat, PoolEmissionsAssumption, PromiseNat
    <2>10. /\ PromiseOf(t)' \in Nat
           /\ PromiseOf(t)' <= PromiseOf(t) + PartOf(t) * SupplyScalar
      BY <2>5, <2>6, <2>7, <2>8, <2>9
    <2> QED BY <2>1, <2>2, <2>4, <2>10
  <1>9. Books'
    <2>1. [q \in ReserveTokens |-> ShareOf(q)]' = [q \in ReserveTokens |-> ShareOf(q)]
      BY <1>1 DEF ShareOf
    <2>2. Total([q \in ReserveTokens |-> ShareOf(q)])' <= Scalar7
      BY <2>1 DEF Books
    <2> QED BY <1>6, <1>7, <1>8, <2>2 DEF Books
  <1> QED BY <1>7, <1>8, <1>9

\* Steps that leave the streams, the records and the balances alone.
LEMMA QuietKeeps ==
    ASSUME Books, UNCHANGED <<config, data, user_data, tokens>>, now' \in Nat, now <= now',
           pending' \in Nat, allowance' \in Nat, lapsed' \in Nat,
           DOMAIN shares' \subseteq ReserveTokens, \A t \in DOMAIN shares' : shares'[t] \in Nat,
           Total([t \in ReserveTokens |-> ShareOf(t)])' <= Scalar7
    PROVE  Books' /\ \A t \in ReserveTokens : PromiseOf(t)' = PromiseOf(t)
  <1>1. /\ config' = config /\ data' = data /\ user_data' = user_data
        /\ balance' = balance /\ supply' = supply
    BY DEF tokens
  <1>2. Typed'
    BY <1>1 DEF Books, Typed
  <1>3. ASSUME NEW t \in ReserveTokens
        PROVE  /\ InStep(t)' /\ supply'[t] = Total(balance'[t])
               /\ PromiseOf(t)' = PromiseOf(t)
    BY <1>1, TokenIdle
  <1> QED BY <1>2, <1>3 DEF Books

\* The shares an admin sets are together at most the whole.
LEMMA SharesSet ==
    ASSUME Books, NEW s \in Shares, SetPoolEmissions(s)
    PROVE  /\ DOMAIN shares' \subseteq ReserveTokens
           /\ \A t \in DOMAIN shares' : shares'[t] \in Nat
           /\ Total([t \in ReserveTokens |-> ShareOf(t)])' <= Scalar7
  <1> DEFINE D == DOMAIN s
             h == [t \in ReserveTokens |-> IF t \in D THEN s[t] ELSE 0]
  <1>1. D \in SUBSET ReserveTokens /\ s \in [D -> Nat] /\ IsFiniteSet(ReserveTokens)
    BY PoolEmissionsAssumption
  <1>2. shares' = s /\ SumFunction(s) <= Scalar7
    BY DEF SetPoolEmissions
  <1>3. [t \in ReserveTokens |-> ShareOf(t)]' = h
    BY <1>2 DEF ShareOf
  <1>4. /\ h \in [ReserveTokens -> Nat] /\ \A t \in ReserveTokens \ D : h[t] = 0
        /\ [t \in D |-> h[t]] = s
    BY <1>1
  <1> HIDE DEF h
  <1>5. Total([t \in D |-> h[t]]) = Total(h)
    BY <1>1, <1>4, TotalWider
  <1>6. Total(h) <= Scalar7
    BY <1>2, <1>4, <1>5, SumIsTotal
  <1>7. Total([t \in ReserveTokens |-> ShareOf(t)])' = Total(h)
    BY <1>3
  <1> QED BY <1>1, <1>2, <1>6, <1>7

\* What the streams and records promise is a natural number.
LEMMA PromisedNat ==
    ASSUME Books
    PROVE  /\ [t \in ReserveTokens |-> PromiseOf(t)] \in [ReserveTokens -> Nat]
           /\ Promised \in Nat
  <1>1. [t \in ReserveTokens |-> PromiseOf(t)] \in [ReserveTokens -> Nat]
    BY PromiseNat
  <1> QED BY <1>1, TotalNat, PoolEmissionsAssumption DEF Promised

\* Promises that do not grow are covered by what covered them.
LEMMA FundedStays ==
    ASSUME Books, Funded,
           \A t \in ReserveTokens : PromiseOf(t)' \in Nat /\ PromiseOf(t)' <= PromiseOf(t),
           allowance' + lapsed' = allowance + lapsed
    PROVE  Funded'
  <1> DEFINE f == [t \in ReserveTokens |-> PromiseOf(t)]
             h == [t \in ReserveTokens |-> PromiseOf(t)']
  <1>1. f \in [ReserveTokens -> Nat] /\ h \in [ReserveTokens -> Nat]
        /\ \A t \in ReserveTokens : h[t] <= f[t]
    BY PromiseNat
  <1>2. Promised = Total(f) /\ Promised' = Total(h)
    BY DEF Promised
  <1> HIDE DEF f, h
  <1>3. Total(h) <= Total(f) /\ Total(f) \in Nat /\ Total(h) \in Nat
    BY <1>1, TotalGrows, TotalNat, PoolEmissionsAssumption
  <1>4. (allowance + lapsed) * SupplyScalar \in Nat
    <2>1. allowance + lapsed \in Nat
      BY DEF Books, Typed
    <2> QED BY <2>1, ProductNat, PoolEmissionsAssumption
  <1> QED BY <1>2, <1>3, <1>4 DEF Funded

\* A claim takes from the allowance no more than from the promises.
LEMMA ClaimFunded ==
    ASSUME Books, Funded, NEW from \in Holders, NEW ids \in SUBSET ReserveTokens,
           NEW delivered \in BOOLEAN, Claim(from, ids, delivered)
    PROVE  Funded'
  <1> DEFINE live == {t \in ids : config[t] # None}
             to_claim == SumFunction([t \in live |-> Due(t, from)])
             out(t) == IF t \in ids /\ config[t] # None THEN Due(t, from) ELSE 0
             x == [t \in ReserveTokens |-> out(t)]
             f == [t \in ReserveTokens |-> PromiseOf(t)]
             h == [t \in ReserveTokens |-> PromiseOf(t)']
  <1>1. /\ allowance' = IF delivered /\ to_claim <= allowance
                        THEN allowance - to_claim ELSE allowance
        /\ lapsed' = lapsed
    BY Zenon DEF Claim
  <1>2. \A t \in ReserveTokens : /\ PromiseOf(t)' \in Nat /\ out(t) \in Nat
                                 /\ PromiseOf(t)' + out(t) * SupplyScalar <= PromiseOf(t)
    BY ClaimKeeps
  <1> HIDE DEF out
  <1>3. /\ x \in [ReserveTokens -> Nat] /\ f \in [ReserveTokens -> Nat]
        /\ h \in [ReserveTokens -> Nat]
        /\ \A t \in ReserveTokens : h[t] + x[t] * SupplyScalar <= f[t]
    BY <1>2, PromiseNat
  <1>4. Promised = Total(f) /\ Promised' = Total(h)
    BY DEF Promised
  <1>5. [t \in live |-> x[t]] = [t \in live |-> Due(t, from)]
        /\ live \in SUBSET ReserveTokens /\ \A t \in ReserveTokens \ live : x[t] = 0
    BY DEF out
  <1> HIDE DEF f, h, x
  <1>6. to_claim = Total(x)
    <2>1. Total([t \in live |-> x[t]]) = Total(x)
      <3>1. /\ live \in SUBSET ReserveTokens /\ x \in [ReserveTokens -> Nat]
            /\ \A t \in ReserveTokens \ live : x[t] = 0
        BY <1>3, <1>5
      <3> HIDE DEF live
      <3> QED BY <3>1, TotalWider, PoolEmissionsAssumption
    <2> QED BY <1>5, <2>1, SumIsTotal
  <1> HIDE DEF to_claim
  <1>7. /\ Total(h) + Total(x) * SupplyScalar <= Total(f) /\ Total(x) \in Nat
        /\ Total(f) \in Nat /\ Total(h) \in Nat
    BY <1>3, TotalsPay, TotalNat, PoolEmissionsAssumption
  <1>8. /\ Total(f) <= (allowance + lapsed) * SupplyScalar
        /\ allowance \in Nat /\ lapsed \in Nat /\ SupplyScalar \in Nat
    BY <1>4, PoolEmissionsAssumption DEF Funded, Books, Typed
  <1>9. allowance' = allowance \/ allowance' = allowance - Total(x)
    <2> HIDE DEF live
    <2> QED BY <1>1, <1>6
  <1> DEFINE n == Total(x)
             a == allowance + lapsed
  <1>10. /\ n \in Nat /\ a \in Nat /\ n * SupplyScalar \in Nat /\ a * SupplyScalar \in Nat
         /\ (a - n) * SupplyScalar = a * SupplyScalar - n * SupplyScalar
    <2>1. n \in Nat /\ a \in Nat
      BY <1>7, <1>8
    <2> HIDE DEF n, a
    <2> QED BY <1>8, <2>1, ProductNat
  <1>11. allowance' + lapsed' = a \/ allowance' + lapsed' = a - n
    <2>1. /\ allowance \in Nat /\ lapsed \in Nat /\ lapsed' = lapsed /\ Total(x) \in Nat
      BY <1>1, <1>7, <1>8
    <2> QED BY <1>9, <2>1
  <1>12. Total(h) <= (allowance' + lapsed') * SupplyScalar
    <2>1. Total(h) <= a * SupplyScalar /\ Total(h) <= (a - n) * SupplyScalar
      <3>1. Total(h) + n * SupplyScalar <= Total(f) /\ Total(f) <= a * SupplyScalar
        BY <1>7, <1>8
      <3> HIDE DEF n, a
      <3> QED BY <1>7, <1>10, <3>1
    <2> QED BY <1>11, <2>1
  <1> QED BY <1>4, <1>12 DEF Funded

\* A gulp adds to the allowance no less than to the promises.
LEMMA GulpFunded ==
    ASSUME Books, Funded, GulpEmissions
    PROVE  Funded'
  <1> DEFINE x == [t \in ReserveTokens |-> PartOf(t)]
             f == [t \in ReserveTokens |-> PromiseOf(t)]
             h == [t \in ReserveTokens |-> PromiseOf(t)']
  <1>1. allowance' = allowance + pending /\ lapsed' = lapsed
    BY DEF GulpEmissions
  <1>2. /\ x \in [ReserveTokens -> Nat] /\ f \in [ReserveTokens -> Nat]
        /\ h \in [ReserveTokens -> Nat]
        /\ \A t \in ReserveTokens : h[t] <= f[t] + x[t] * SupplyScalar
        /\ Total(x) <= pending /\ pending \in Nat
    BY GulpKeeps, PromiseNat, PartsBounded
  <1>3. Promised = Total(f) /\ Promised' = Total(h)
    BY DEF Promised
  <1> HIDE DEF f, h, x
  <1>4. /\ Total(h) <= Total(f) + Total(x) * SupplyScalar /\ Total(x) \in Nat
        /\ Total(f) \in Nat /\ Total(h) \in Nat
    BY <1>2, TotalsGain, TotalNat, PoolEmissionsAssumption
  <1> DEFINE a == allowance + lapsed
  <1>5. /\ Total(f) <= a * SupplyScalar /\ a \in Nat /\ SupplyScalar \in Nat
        /\ allowance' + lapsed' = a + pending
    BY <1>1, <1>2, <1>3, PoolEmissionsAssumption DEF Funded, Books, Typed
  <1> HIDE DEF a
  <1>6. Total(x) * SupplyScalar <= pending * SupplyScalar
    BY <1>2, <1>4, <1>5, ProductGrows
  <1>7. /\ (a + pending) * SupplyScalar = a * SupplyScalar + pending * SupplyScalar
        /\ a * SupplyScalar \in Nat /\ pending * SupplyScalar \in Nat
        /\ Total(x) * SupplyScalar \in Nat
    BY <1>2, <1>4, <1>5, ProductNat
  <1>8. Total(h) <= (allowance' + lapsed') * SupplyScalar
    BY <1>4, <1>5, <1>6, <1>7
  <1> QED BY <1>3, <1>8 DEF Funded
-----------------------------------------------------------------------------
\* A pool starts without shares, streams, records and balances.
LEMMA InitIInv == Init => IInv
  <1> SUFFICES ASSUME Init PROVE IInv
    OBVIOUS
  <1>1. DOMAIN shares = {} /\ \A t \in ReserveTokens : ShareOf(t) = 0
    BY DEF Init, ShareOf
  <1>2. Typed
    BY <1>1 DEF Init, Typed, Absent
  <1>3. Total([t \in ReserveTokens |-> ShareOf(t)]) <= Scalar7
    <2>1. [t \in ReserveTokens |-> ShareOf(t)] = [t \in ReserveTokens |-> 0]
      BY <1>1
    <2>2. Total([t \in ReserveTokens |-> 0]) = 0
      BY TotalZero, PoolEmissionsAssumption
    <2> QED BY <2>1, <2>2, PoolConstantsAssumption
  <1>4. ASSUME NEW t \in ReserveTokens
        PROVE  InStep(t) /\ supply[t] = Total(balance[t]) /\ PromiseOf(t) = 0
    <2>1. /\ config[t] = None /\ data[t] = None /\ supply[t] = 0
          /\ user_data[t] = [h \in Holders |-> None] /\ balance[t] = [h \in Holders |-> 0]
      BY DEF Init, Absent
    <2>2. Total(balance[t]) = 0
      BY <2>1, TotalZero, PoolEmissionsAssumption
    <2> QED BY <2>1, <2>2 DEF InStep, PromiseOf
  <1>5. Funded
    <2>1. [t \in ReserveTokens |-> PromiseOf(t)] = [t \in ReserveTokens |-> 0]
      BY <1>4
    <2>2. Promised = 0
      BY <2>1, TotalZero, PoolEmissionsAssumption DEF Promised
    <2>3. allowance = 0 /\ lapsed = 0 /\ (0 + 0) * SupplyScalar = 0
      BY PoolEmissionsAssumption DEF Init
    <2> QED BY <2>2, <2>3 DEF Funded
  <1> QED BY <1>2, <1>3, <1>4, <1>5 DEF IInv, Books

\* A change of balances keeps the invariant.
LEMMA ChangeFunded ==
    ASSUME IInv, NEW t \in ReserveTokens,
           \E bs \in [Holders -> Nat] : Change(t, bs, Total(bs))
    PROVE  IInv'
  <1>1. PICK bs \in [Holders -> Nat] : Change(t, bs, Total(bs))
    OBVIOUS
  <1>2. Total(bs) \in Nat
    BY TotalNat, PoolEmissionsAssumption
  <1>3. Books' /\ \A q \in ReserveTokens : PromiseOf(q)' \in Nat /\ PromiseOf(q)' <= PromiseOf(q)
    BY <1>1, <1>2, ChangeKeeps DEF IInv
  <1>4. allowance' = allowance /\ lapsed' = lapsed
    BY <1>1 DEF Change, backstop
  <1>5. Funded'
    BY <1>3, <1>4, FundedStays DEF IInv
  <1> QED BY <1>3, <1>5 DEF IInv

\* So does a step that leaves the streams, the records and the balances alone.
LEMMA QuietFunded ==
    ASSUME IInv, UNCHANGED <<config, data, user_data, tokens>>, now' \in Nat, now <= now',
           pending' \in Nat, allowance' \in Nat, lapsed' \in Nat,
           DOMAIN shares' \subseteq ReserveTokens, \A t \in DOMAIN shares' : shares'[t] \in Nat,
           Total([t \in ReserveTokens |-> ShareOf(t)])' <= Scalar7,
           allowance' + lapsed' = allowance + lapsed
    PROVE  IInv'
  <1>1. Books' /\ \A t \in ReserveTokens : PromiseOf(t)' = PromiseOf(t)
    BY QuietKeeps DEF IInv
  <1>2. \A t \in ReserveTokens : PromiseOf(t)' \in Nat /\ PromiseOf(t)' <= PromiseOf(t)
    BY <1>1, PromiseNat DEF IInv
  <1>3. Funded'
    BY <1>2, FundedStays DEF IInv
  <1> QED BY <1>1, <1>3 DEF IInv

\* What a step finds, and keeps where it leaves the shares alone.
LEMMA NumbersTyped ==
    ASSUME IInv
    PROVE  /\ now \in Nat /\ pending \in Nat /\ allowance \in Nat /\ lapsed \in Nat
           /\ DOMAIN shares \subseteq ReserveTokens /\ \A t \in DOMAIN shares : shares[t] \in Nat
           /\ Total([t \in ReserveTokens |-> ShareOf(t)]) <= Scalar7
           /\ shares' = shares =>
                Total([t \in ReserveTokens |-> ShareOf(t)])' <= Scalar7
  <1>1. shares' = shares => [t \in ReserveTokens |-> ShareOf(t)]'
                              = [t \in ReserveTokens |-> ShareOf(t)]
    BY DEF ShareOf
  <1> QED BY <1>1 DEF IInv, Books, Typed

\* Every step keeps the books and what is promised funded.
LEMMA StepIInv == IInv /\ [Next]_vars => IInv'
  <1> SUFFICES ASSUME IInv, [Next]_vars PROVE IInv'
    OBVIOUS
  <1>1. ASSUME NEW t \in ReserveTokens, NEW h \in Holders, NEW n \in Amounts, Mint(t, h, n)
        PROVE  IInv'
    BY <1>1, MintChanges, ChangeFunded DEF IInv
  <1>2. ASSUME NEW t \in ReserveTokens, NEW h \in Holders, NEW n \in Amounts, Burn(t, h, n)
        PROVE  IInv'
    BY <1>2, BurnChanges, ChangeFunded DEF IInv
  <1>3. ASSUME NEW t \in ReserveTokens, NEW h \in Holders, NEW n \in Amounts,
               NEW to \in Holders, Move(t, h, to, n)
        PROVE  IInv'
    BY <1>3, MoveChanges, ChangeFunded DEF IInv
  <1>4. ASSUME NEW h \in Holders, NEW ids \in SUBSET ReserveTokens,
               NEW delivered \in BOOLEAN, Claim(h, ids, delivered)
        PROVE  IInv'
    BY <1>4, ClaimKeeps, ClaimFunded DEF IInv
  <1>5. ASSUME NEW s \in Shares, SetPoolEmissions(s) PROVE IInv'
    <2>1. /\ DOMAIN shares' \subseteq ReserveTokens
          /\ \A t \in DOMAIN shares' : shares'[t] \in Nat
          /\ Total([t \in ReserveTokens |-> ShareOf(t)])' <= Scalar7
      BY <1>5, SharesSet DEF IInv
    <2>2. /\ UNCHANGED <<config, data, user_data, tokens>> /\ now' = now
          /\ pending' = pending /\ allowance' = allowance /\ lapsed' = lapsed
      BY <1>5 DEF SetPoolEmissions, backstop
    <2> QED BY <2>1, <2>2, NumbersTyped, QuietFunded
  <1>6. CASE GulpEmissions
    BY <1>6, GulpKeeps, GulpFunded DEF IInv
  <1>7. ASSUME NEW n \in Assigned, BackstopAssigns(n) PROVE IInv'
    <2>1. /\ UNCHANGED <<config, data, user_data, tokens>> /\ now' = now /\ shares' = shares
          /\ pending' = pending + n /\ allowance' = allowance /\ lapsed' = lapsed
          /\ n \in Nat
      BY <1>7, PoolEmissionsAssumption DEF BackstopAssigns, streams
    <2>2. pending' \in Nat
      BY <2>1, NumbersTyped
    <2> QED BY <2>1, <2>2, NumbersTyped, QuietFunded
  <1>8. CASE AllowanceLapses
    <2>1. /\ UNCHANGED <<config, data, user_data, tokens>> /\ now' = now /\ shares' = shares
          /\ pending' = pending /\ allowance' = 0 /\ lapsed' = lapsed + allowance
      BY <1>8 DEF AllowanceLapses, streams
    <2>2. allowance' \in Nat /\ lapsed' \in Nat /\ allowance' + lapsed' = allowance + lapsed
      BY <2>1, NumbersTyped
    <2> QED BY <2>1, <2>2, NumbersTyped, QuietFunded
  <1>9. CASE Tick
    <2>1. /\ UNCHANGED <<config, data, user_data, tokens>> /\ now' = now + 1
          /\ shares' = shares
          /\ pending' = pending /\ allowance' = allowance /\ lapsed' = lapsed
      BY <1>9 DEF Tick, streams, backstop
    <2>2. now' \in Nat /\ now <= now'
      BY <2>1, NumbersTyped
    <2> QED BY <2>1, <2>2, NumbersTyped, QuietFunded
  <1>10. CASE UNCHANGED vars
    <2>1. /\ UNCHANGED <<config, data, user_data, tokens>> /\ now' = now /\ shares' = shares
          /\ pending' = pending /\ allowance' = allowance /\ lapsed' = lapsed
      BY <1>10 DEF vars, streams, backstop
    <2> QED BY <2>1, NumbersTyped, QuietFunded
  <1> QED BY <1>1, <1>2, <1>3, <1>4, <1>5, <1>6, <1>7, <1>8, <1>9, <1>10 DEF Next

\* The invariant of the pool's emissions.
LEMMA InvariantHolds == Spec => []IInv
  BY InitIInv, StepIInv, PTL DEF Spec

\* A holder's record is never ahead of the index of its token, for any shares,
\* holders and sequence of streams: the repair that forfeits what is due is dead code.
THEOREM RecordsNeverAheadProved == Spec => []RecordsNeverAhead
  <1>1. IInv => RecordsNeverAhead
    BY DEF IInv, Books, InStep, RecordsNeverAhead
  <1> QED BY <1>1, InvariantHolds, PTL

\* What a token's stream and holders may still ask for is within its promise.
LEMMA TokenFunded ==
    ASSUME Books, NEW t \in ReserveTokens
    PROVE  LET all == Unstreamed(t) + SumFunction([h \in Holders |-> Claimable(t, h)]) IN
           all \in Nat /\ all * SupplyScalar <= PromiseOf(t)
  <1> DEFINE due == [h \in Holders |-> Claimable(t, h)]
             all == Unstreamed(t) + SumFunction(due)
  <1> SUFFICES all \in Nat /\ all * SupplyScalar <= PromiseOf(t)
    OBVIOUS
  <1>1. SumFunction(due) = Total(due)
    BY SumIsTotal
  <1>2. CASE config[t] = None
    <2>1. Unstreamed(t) = 0 /\ due = [h \in Holders |-> 0] /\ PromiseOf(t) = 0
      BY <1>2 DEF Unstreamed, Claimable, PromiseOf
    <2>2. Total(due) = 0
      BY <2>1, TotalZero, PoolEmissionsAssumption
    <2>3. 0 + 0 = 0 /\ 0 * SupplyScalar = 0
      BY PoolEmissionsAssumption
    <2> HIDE DEF due
    <2> QED BY <1>1, <2>1, <2>2, <2>3
  <1>3. CASE config[t] # None
    <2> DEFINE e == UpdatedData(t)
               u == StillToEmit(config[t], e.last_time)
               f == [h \in Holders |-> OwedAt(user_data[t][h], balance[t][h], e.index)]
               z == [h \in Holders |-> 0]
    <2>1. /\ u \in Nat /\ Unstreamed(t) = u
      BY <1>3, UpdateTakes DEF Books, Unstreamed, StillToEmit
    <2>2. /\ f \in [Holders -> Nat] /\ due \in [Holders -> Nat] /\ z \in [Holders -> Nat]
          /\ \A h \in Holders : z[h] + due[h] * SupplyScalar <= f[h]
      <3>1. \A h \in Holders :
              /\ Claimable(t, h) = Due(t, h) /\ Due(t, h) \in Nat
              /\ Due(t, h) * SupplyScalar \in Nat
              /\ Due(t, h) * SupplyScalar <= f[h] /\ f[h] \in Nat
        BY <1>3, DueBounds, ProductNat, PoolEmissionsAssumption DEF Claimable
      <3> HIDE DEF e
      <3> QED BY <3>1
    <2>3. Promise(config[t], e, user_data[t], balance[t]) = u * SupplyScalar + Total(f)
      BY DEF Promise, Owes
    <2>4. /\ Promise(config[t], e, user_data[t], balance[t]) \in Nat
          /\ Promise(config[t], e, user_data[t], balance[t]) <= PromiseOf(t)
          /\ PromiseOf(t) \in Nat
      BY <1>3, UpdatePromise DEF PromiseOf
    <2>5. Total(z) = 0
      BY TotalZero, PoolEmissionsAssumption
    <2> HIDE DEF due, f, z, u
    <2>6. Total(z) + Total(due) * SupplyScalar <= Total(f) /\ Total(due) \in Nat
          /\ Total(f) \in Nat
      BY <2>2, TotalsPay, TotalNat, PoolEmissionsAssumption
    <2>7. /\ (u + Total(due)) * SupplyScalar = u * SupplyScalar + Total(due) * SupplyScalar
          /\ u * SupplyScalar \in Nat /\ Total(due) * SupplyScalar \in Nat
      BY <2>1, <2>6, ProductNat, PoolEmissionsAssumption
    <2>8. (u + Total(due)) * SupplyScalar <= PromiseOf(t) /\ u + Total(due) \in Nat
      BY <2>1, <2>3, <2>4, <2>5, <2>6, <2>7
    <2> QED BY <1>1, <2>1, <2>8
  <1> QED BY <1>2, <1>3

\* The allowance, with what lapsed of it, covers whatever all holders can claim and
\* all streams will emit, for any number of them and any rounding.
THEOREM EmissionsFundedProved == Spec => []EmissionsFunded
  <1>1. ASSUME IInv PROVE EmissionsFunded
    <2> DEFINE all(t) == Unstreamed(t) + SumFunction([h \in Holders |-> Claimable(t, h)])
               x == [t \in ReserveTokens |-> all(t)]
               f == [t \in ReserveTokens |-> PromiseOf(t)]
               z == [t \in ReserveTokens |-> 0]
               a == allowance + lapsed
    <2>1. \A t \in ReserveTokens : /\ all(t) \in Nat /\ PromiseOf(t) \in Nat
                                   /\ all(t) * SupplyScalar <= PromiseOf(t)
      BY <1>1, TokenFunded, PromiseNat DEF IInv
    <2>2. EmissionsFunded <=> a >= Total(x)
      BY SumIsTotal DEF EmissionsFunded
    <2> HIDE DEF all
    <2>3. /\ x \in [ReserveTokens -> Nat] /\ f \in [ReserveTokens -> Nat]
          /\ z \in [ReserveTokens -> Nat]
          /\ \A t \in ReserveTokens : z[t] + x[t] * SupplyScalar <= f[t]
      <3>1. \A t \in ReserveTokens : all(t) * SupplyScalar \in Nat
        BY <2>1, ProductNat, PoolEmissionsAssumption
      <3> QED BY <2>1, <3>1
    <2>4. Total(z) = 0
      BY TotalZero, PoolEmissionsAssumption
    <2>5. Total(f) <= a * SupplyScalar /\ a \in Nat
      BY <1>1, NumbersTyped DEF IInv, Funded, Promised
    <2> HIDE DEF x, f, z, a
    <2>6. Total(z) + Total(x) * SupplyScalar <= Total(f) /\ Total(x) \in Nat
      BY <2>3, TotalsPay, PoolEmissionsAssumption
    <2>7. Total(f) \in Nat
      BY <2>3, TotalNat, PoolEmissionsAssumption
    <2>8. Total(x) <= a
      <3> SUFFICES ASSUME a < Total(x) PROVE FALSE
        BY <2>5, <2>6
      <3>1. (a + 1) * SupplyScalar <= Total(x) * SupplyScalar
        BY <2>5, <2>6, ProductGrows, PoolEmissionsAssumption
      <3>2. /\ (a + 1) * SupplyScalar = a * SupplyScalar + SupplyScalar
            /\ a * SupplyScalar \in Nat /\ Total(x) * SupplyScalar \in Nat
        BY <2>5, <2>6, ProductNat, PoolEmissionsAssumption
      <3> QED BY <2>4, <2>5, <2>6, <2>7, <3>1, <3>2, PoolEmissionsAssumption
    <2> QED BY <2>2, <2>5, <2>6, <2>8
  <1> QED BY <1>1, InvariantHolds, PTL
-----------------------------------------------------------------------------
\* The data of a stream c with supply s at time n, as UpdatedData has it of a token.
StreamAt(c, d, s, n) ==
    LET until == AtMost(n, c.expiration)
    IN  IF until <= d.last_time \/ c.eps = 0 \/ s = 0 THEN d
        ELSE [index |-> d.index + DivFloor((until - d.last_time) * c.eps, s, SupplyScalar),
              last_time |-> until]

\* A stream's index rises with time, from update to update.
LEMMA StreamRises ==
    ASSUME NEW c \in ReserveEmissionsConfig, NEW d \in ReserveEmissionsData,
           NEW s \in Nat, NEW n \in Nat
    PROVE  /\ StreamAt(c, d, s, n) \in ReserveEmissionsData
           /\ StreamAt(c, d, s, n).index \in Nat /\ d.index \in Nat
           /\ d.index <= StreamAt(c, d, s, n).index
  <1> DEFINE until == AtMost(n, c.expiration)
             inc == DivFloor((until - d.last_time) * c.eps, s, SupplyScalar)
             e == StreamAt(c, d, s, n)
  <1>1. /\ c.expiration \in Nat /\ c.eps \in Nat /\ d.index \in Nat /\ d.last_time \in Nat
    BY DEF ReserveEmissionsConfig, ReserveEmissionsData
  <1>2. until \in Nat /\ until <= n
    BY <1>1 DEF AtMost
  <1>3. CASE until <= d.last_time \/ c.eps = 0 \/ s = 0
    <2>1. e = d
      BY <1>3 DEF StreamAt
    <2> QED BY <1>1, <2>1
  <1>4. CASE ~(until <= d.last_time \/ c.eps = 0 \/ s = 0)
    <2>1. e = [index |-> d.index + inc, last_time |-> until]
      BY <1>4 DEF StreamAt
    <2>2. until - d.last_time \in Nat /\ s \in Nat \ {0}
      BY <1>1, <1>2, <1>4
    <2>3. inc \in Nat
      <3>1. (until - d.last_time) * c.eps \in Nat
        <4> HIDE DEF until
        <4> QED BY <1>1, <2>2, ProductNat
      <3> QED BY <2>2, <3>1, DivFloorBounds, PoolEmissionsAssumption
    <2> HIDE DEF inc, until
    <2>4. /\ d.index + inc \in Nat /\ d.index <= d.index + inc
          /\ [index |-> d.index + inc, last_time |-> until] \in ReserveEmissionsData
      BY <1>1, <1>2, <2>3 DEF ReserveEmissionsData
    <2> HIDE DEF e
    <2>5. e \in ReserveEmissionsData /\ e.index = d.index + inc
      BY <2>1, <2>4
    <2> QED BY <1>1, <2>4, <2>5 DEF e
  <1> QED BY <1>3, <1>4

\* Once updated while the token is held, the data stays for the rest of the ledger.
LEMMA StreamSettled ==
    ASSUME NEW c \in ReserveEmissionsConfig, NEW d \in ReserveEmissionsData,
           NEW s \in Nat, NEW n \in Nat, s # 0, NEW r \in Nat
    PROVE  StreamAt(c, StreamAt(c, d, s, n), r, n) = StreamAt(c, d, s, n)
  <1> DEFINE until == AtMost(n, c.expiration)
             e == StreamAt(c, d, s, n)
  <1>1. CASE until <= d.last_time \/ c.eps = 0
    BY <1>1 DEF StreamAt
  <1>2. CASE ~(until <= d.last_time \/ c.eps = 0)
    <2>1. e.last_time = until
      BY <1>2 DEF StreamAt
    <2>2. until <= until
      BY DEF AtMost, ReserveEmissionsConfig
    <2> HIDE DEF e
    <2>3. StreamAt(c, e, r, n) = e
      BY <2>1, <2>2 DEF StreamAt
    <2> QED BY <2>3 DEF e
  <1> QED BY <1>1, <1>2

\* Data from this ledger or a later one is left alone.
LEMMA StreamStill ==
    ASSUME NEW c \in ReserveEmissionsConfig, NEW d \in ReserveEmissionsData,
           NEW s \in Nat, NEW n \in Nat, n <= d.last_time
    PROVE  StreamAt(c, d, s, n) = d
  <1>1. AtMost(n, c.expiration) <= d.last_time
    BY DEF AtMost, ReserveEmissionsConfig, ReserveEmissionsData
  <1> QED BY <1>1 DEF StreamAt

\* The later the update, the larger the index.
LEMMA StreamLater ==
    ASSUME NEW c \in ReserveEmissionsConfig, NEW d \in ReserveEmissionsData,
           NEW s \in Nat, NEW n \in Nat, NEW m \in Nat, n <= m
    PROVE  StreamAt(c, d, s, n).index <= StreamAt(c, d, s, m).index
  <1> DEFINE l == d.last_time
             until(k) == AtMost(k, c.expiration)
             out(k) == (until(k) - l) * c.eps
  <1>1. /\ c.expiration \in Nat /\ c.eps \in Nat /\ d.index \in Nat /\ l \in Nat
    BY DEF ReserveEmissionsConfig, ReserveEmissionsData
  <1>2. until(n) \in Nat /\ until(m) \in Nat /\ until(n) <= until(m)
    BY <1>1 DEF AtMost
  <1>3. CASE until(n) <= l \/ c.eps = 0 \/ s = 0
    <2>1. StreamAt(c, d, s, n) = d
      BY <1>3 DEF StreamAt
    <2>2. d.index <= StreamAt(c, d, s, m).index
      BY StreamRises
    <2> QED BY <2>1, <2>2
  <1>4. CASE ~(until(n) <= l \/ c.eps = 0 \/ s = 0)
    <2>1. ~(until(m) <= l \/ c.eps = 0 \/ s = 0)
      BY <1>1, <1>2, <1>4
    <2>2. /\ StreamAt(c, d, s, n).index = d.index + DivFloor(out(n), s, SupplyScalar)
          /\ StreamAt(c, d, s, m).index = d.index + DivFloor(out(m), s, SupplyScalar)
      BY <1>4, <2>1 DEF StreamAt
    <2>3. /\ until(n) - l \in Nat /\ until(m) - l \in Nat
          /\ until(n) - l <= until(m) - l /\ s \in Nat \ {0}
      BY <1>1, <1>2, <1>4, <2>1
    <2> HIDE DEF until, l
    <2>4. out(n) \in Nat /\ out(m) \in Nat /\ out(n) <= out(m)
      BY <1>1, <2>3, ProductNat, ProductGrows
    <2> HIDE DEF out
    <2>5. /\ out(n) * SupplyScalar \in Nat /\ out(m) * SupplyScalar \in Nat
          /\ out(n) * SupplyScalar <= out(m) * SupplyScalar
      BY <2>4, ProductNat, ProductGrows, PoolEmissionsAssumption
    <2>6. DivFloor(out(n), s, SupplyScalar) <= DivFloor(out(m), s, SupplyScalar)
      BY <2>3, <2>5, QuotientMono DEF DivFloor
    <2>7. /\ DivFloor(out(n), s, SupplyScalar) \in Nat
          /\ DivFloor(out(m), s, SupplyScalar) \in Nat
      BY <2>3, <2>4, DivFloorBounds, PoolEmissionsAssumption
    <2> QED BY <1>1, <2>2, <2>6, <2>7
  <1> HIDE DEF until, l
  <1> QED BY <1>3, <1>4

\* What a holder could claim, before and after a step.
LEMMA ClaimableIs ==
    ASSUME NEW t, NEW h
    PROVE  /\ UpdatedData(t) = StreamAt(config[t], data[t], supply[t], now)
           /\ UpdatedData(t)' = StreamAt(config'[t], data'[t], supply'[t], now')
           /\ Claimable(t, h)
                = IF config[t] = None THEN 0
                  ELSE Gained(user_data[t][h], balance[t][h], UpdatedData(t).index)
           /\ Claimable(t, h)'
                = IF config'[t] = None THEN 0
                  ELSE Gained(user_data'[t][h], balance'[t][h], UpdatedData(t)'.index)
  <1>1. UpdatedData(t) = StreamAt(config[t], data[t], supply[t], now)
    BY Zenon DEF UpdatedData, StreamAt
  <1>2. UpdatedData(t)' = StreamAt(config'[t], data'[t], supply'[t], now')
    BY Zenon DEF UpdatedData, StreamAt
  <1>3. Due(t, h)' = Gained(user_data'[t][h], balance'[t][h], UpdatedData(t)'.index)
    BY Zenon DEF Due, Gained
  <1>4. Due(t, h) = Gained(user_data[t][h], balance[t][h], UpdatedData(t).index)
    BY DueGained
  <1>5. Claimable(t, h) = IF config[t] = None THEN 0 ELSE Due(t, h)
    BY DEF Claimable
  <1>6. Claimable(t, h)' = IF config'[t] = None THEN 0 ELSE Due(t, h)'
    BY DEF Claimable
  <1> QED BY <1>1, <1>2, <1>3, <1>4, <1>5, <1>6, Zenon

\* The index of a token updated in this ledger.
LEMMA UpdatedAgain ==
    ASSUME Books, NEW t \in ReserveTokens, config[t] # None, config'[t] = config[t],
           data'[t] = UpdatedData(t), now' = now, supply'[t] \in Nat
    PROVE  /\ UpdatedData(t).index \in Nat /\ UpdatedData(t)'.index \in Nat
           /\ UpdatedData(t).index <= UpdatedData(t)'.index
           /\ supply[t] # 0 => UpdatedData(t)'.index = UpdatedData(t).index
  <1> DEFINE c == config[t]
             e == UpdatedData(t)
             f == UpdatedData(t)'
  <1>1. /\ c \in ReserveEmissionsConfig /\ data[t] \in ReserveEmissionsData
        /\ supply[t] \in Nat /\ now \in Nat
    BY Entries DEF Books
  <1>2. /\ e = StreamAt(c, data[t], supply[t], now) /\ f = StreamAt(c, e, supply'[t], now)
    BY ClaimableIs
  <1> HIDE DEF c, e, f
  <1>3. e \in ReserveEmissionsData
    BY <1>1, <1>2, StreamRises
  <1>4. e.index \in Nat /\ f.index \in Nat /\ e.index <= f.index
    BY <1>1, <1>2, <1>3, StreamRises
  <1>5. ASSUME supply[t] # 0 PROVE f = e
    <2> DEFINE s == supply[t]
               r == supply'[t]
               d == data[t]
    <2>1. /\ c \in ReserveEmissionsConfig /\ d \in ReserveEmissionsData
          /\ s \in Nat /\ s # 0 /\ r \in Nat /\ e = StreamAt(c, d, s, now)
          /\ f = StreamAt(c, e, r, now)
      BY <1>1, <1>2, <1>5
    <2> HIDE DEF s, r, d
    <2>2. StreamAt(c, StreamAt(c, d, s, now), r, now) = StreamAt(c, d, s, now)
      BY <1>1, <2>1, StreamSettled
    <2> QED BY <2>1, <2>2
  <1> QED BY <1>4, <1>5 DEF e, f

\* What a step may do to what a holder could claim: it grows, and at once only where
\* nobody holds the token.
NotLost(t, h) == Claimable(t, h)' >= Claimable(t, h)
NotGiven(t, h) == Claimable(t, h)' <= Claimable(t, h) \/ supply[t] = 0

\* A step takes from what h could claim of t only as a claim by h alone.
Kept(t, h) ==
    \/ NotLost(t, h)
    \/ /\ user_data'[t][h] # None /\ user_data'[t][h].accrued = 0
       /\ UNCHANGED <<balance, config>>
       /\ \A s \in ReserveTokens, g \in Holders \ {h} : NotLost(s, g)

\* What can be claimed is a natural number.
LEMMA ClaimableNat ==
    ASSUME Books, NEW t \in ReserveTokens, NEW h \in Holders
    PROVE  Claimable(t, h) \in Nat
  BY DueBounds DEF Claimable

\* A token that a step leaves alone, in the same ledger.
LEMMA EarnsIdle ==
    ASSUME Books, NEW t \in ReserveTokens, NEW h \in Holders, now' = now,
           config'[t] = config[t], data'[t] = data[t], user_data'[t] = user_data[t],
           balance'[t] = balance[t], supply'[t] = supply[t]
    PROVE  NotLost(t, h) /\ NotGiven(t, h)
  <1>1. Claimable(t, h)' = Claimable(t, h)
    BY ClaimableIs, Zenon
  <1>2. Claimable(t, h) \in Nat
    BY ClaimableNat
  <1> QED BY <1>1, <1>2 DEF NotLost, NotGiven

\* A holder whose record and balance stay while the token is updated.
LEMMA EarnsKept ==
    ASSUME Books, NEW t \in ReserveTokens, NEW h \in Holders, config[t] # None,
           config'[t] = config[t], user_data'[t][h] = user_data[t][h],
           balance'[t][h] = balance[t][h], UpdatedData(t)'.index \in Nat,
           UpdatedData(t).index <= UpdatedData(t)'.index,
           supply[t] # 0 => UpdatedData(t)'.index = UpdatedData(t).index
    PROVE  NotLost(t, h) /\ NotGiven(t, h)
  <1> DEFINE i == UpdatedData(t).index
             j == UpdatedData(t)'.index
             u == user_data[t][h]
             b == balance[t][h]
  <1>1. /\ Claimable(t, h) = Gained(u, b, i) /\ Claimable(t, h)' = Gained(u, b, j)
    BY ClaimableIs
  <1>2. u \in UserEmissionData \cup {None} /\ b \in Nat /\ i \in Nat
        /\ (u # None => u.index <= i)
    BY HoldersInStep DEF Records, NotAhead
  <1>3. j \in Nat /\ i <= j /\ (supply[t] # 0 => j = i)
    OBVIOUS
  <1> HIDE DEF i, j, u, b
  <1>4. Gained(u, b, i) <= Gained(u, b, j)
    BY <1>2, <1>3, OwedBounds
  <1>5. supply[t] # 0 => Gained(u, b, j) <= Gained(u, b, i)
    <2>1. Gained(u, b, i) \in Nat
      BY <1>2, OwedBounds
    <2> QED BY <1>3, <2>1
  <1> QED BY <1>1, <1>4, <1>5 DEF NotLost, NotGiven

\* A change of balances earns and costs nobody anything.
LEMMA ChangeEarns ==
    ASSUME Books, NEW t \in ReserveTokens, NEW bs \in [Holders -> Nat],
           Change(t, bs, Total(bs)), NEW q \in ReserveTokens, NEW h \in Holders
    PROVE  NotLost(q, h) /\ NotGiven(q, h)
  <1> DEFINE vs == [k \in Holders |-> IF bs[k] # balance[t][k] THEN Recorded(t, k)
                                      ELSE user_data[t][k]]
  <1>1. /\ data' = [data EXCEPT ![t] = Updated(t)]
        /\ user_data' = [user_data EXCEPT ![t] = vs]
        /\ balance' = [balance EXCEPT ![t] = bs] /\ supply' = [supply EXCEPT ![t] = Total(bs)]
        /\ now' = now /\ config' = config
    BY Zenon DEF Change
  <1> HIDE DEF vs
  <1>2. Typed
    BY DEF Books
  <1>3. /\ data'[t] = Updated(t) /\ user_data'[t] = vs /\ balance'[t] = bs
        /\ supply'[t] = Total(bs)
        /\ q # t => /\ data'[q] = data[q] /\ user_data'[q] = user_data[q]
                    /\ balance'[q] = balance[q] /\ supply'[q] = supply[q]
    BY <1>1, <1>2 DEF Typed
  <1>4. CASE q # t
    BY <1>1, <1>3, <1>4, EarnsIdle
  <1>5. CASE q = t /\ config[t] = None
    <2>1. Claimable(t, h)' = 0 /\ Claimable(t, h) = 0
      BY <1>1, <1>5, ClaimableIs
    <2> QED BY <1>5, <2>1 DEF NotLost, NotGiven
  <1>6. CASE q = t /\ config[t] # None
    <2> DEFINE i == UpdatedData(t).index
               j == UpdatedData(t)'.index
    <2>1. /\ config'[t] = config[t] /\ data'[t] = UpdatedData(t) /\ now' = now
          /\ supply'[t] \in Nat
      BY <1>1, <1>3, <1>6, UpdatedTyped, TotalNat, PoolEmissionsAssumption
    <2>2. i \in Nat /\ j \in Nat /\ i <= j /\ (supply[t] # 0 => j = i)
      BY <1>6, <2>1, UpdatedAgain
    <2>3. CASE bs[h] = balance[t][h]
      <3>1. user_data'[t][h] = user_data[t][h] /\ balance'[t][h] = balance[t][h]
        BY <1>3, <2>3 DEF vs
      <3>2. NotLost(t, h) /\ NotGiven(t, h)
        BY <1>6, <2>1, <2>2, <3>1, EarnsKept
      <3> QED BY <1>6, <3>2
    <2>4. CASE bs[h] # balance[t][h]
      <3> DEFINE n == Due(t, h)
                 r == [index |-> i, accrued |-> n]
      <3>1. user_data'[t][h] = r
        BY <1>3, <1>6, <2>4, RecordedTyped DEF vs
      <3>2. Claimable(t, h) = n /\ n \in Nat
        BY <1>6, DueBounds DEF Claimable
      <3>3. Claimable(t, h)' = Gained(r, bs[h], j)
        BY <1>3, <1>6, <2>1, <3>1, ClaimableIs
      <3> HIDE DEF i, j, n
      <3>4. n <= Gained(r, bs[h], j) /\ Gained(r, bs[h], i) = n
        BY <2>2, <3>2, RecordOwes
      <3> HIDE DEF r
      <3>5. supply[t] # 0 => Gained(r, bs[h], j) <= n
        BY <2>2, <3>2, <3>4
      <3>6. NotLost(t, h) /\ NotGiven(t, h)
        BY <3>2, <3>3, <3>4, <3>5 DEF NotLost, NotGiven
      <3> QED BY <1>6, <3>6
    <2> QED BY <2>3, <2>4
  <1> QED BY <1>4, <1>5, <1>6

\* A claim takes nothing from another holder, of any token.
LEMMA ClaimSparesOthers ==
    ASSUME Books, NEW from \in Holders, NEW ids \in SUBSET ReserveTokens,
           NEW delivered \in BOOLEAN, Claim(from, ids, delivered),
           NEW t \in ReserveTokens, NEW h \in Holders \ {from}
    PROVE  NotLost(t, h) /\ NotGiven(t, h)
  <1> DEFINE live == {k \in ids : config[k] # None}
             row(k) == [user_data[k] EXCEPT ![from] =
                          [index |-> UpdatedData(k).index, accrued |-> 0]]
  <1>1. /\ data' = [k \in ReserveTokens |-> IF k \in live THEN UpdatedData(k) ELSE data[k]]
        /\ user_data' = [k \in ReserveTokens |-> IF k \notin live THEN user_data[k]
                                                 ELSE row(k)]
        /\ now' = now /\ config' = config /\ balance' = balance /\ supply' = supply
    BY Zenon DEF Claim, tokens
  <1>2. CASE t \notin live
    <2>1. data'[t] = data[t] /\ user_data'[t] = user_data[t]
      BY <1>1, <1>2
    <2> QED BY <1>1, <2>1, EarnsIdle
  <1>3. CASE t \in live
    <2>1. /\ config[t] # None /\ config'[t] = config[t] /\ data'[t] = UpdatedData(t)
          /\ user_data'[t] = row(t) /\ supply'[t] = supply[t] /\ supply[t] \in Nat
      BY <1>1, <1>3 DEF Books, Typed
    <2>2. /\ UpdatedData(t)'.index \in Nat
          /\ UpdatedData(t).index <= UpdatedData(t)'.index
          /\ supply[t] # 0 => UpdatedData(t)'.index = UpdatedData(t).index
      BY <1>1, <2>1, UpdatedAgain
    <2>3. user_data[t] \in Records
      BY <2>1, HoldersInStep
    <2>4. user_data'[t][h] = user_data[t][h] /\ balance'[t][h] = balance[t][h]
      BY <1>1, <2>1, <2>3 DEF Records
    <2> QED BY <2>1, <2>2, <2>4, EarnsKept
  <1> QED BY <1>2, <1>3

\* A claim leaves the claimer with an empty record, and costs nobody else anything.
LEMMA ClaimEarns ==
    ASSUME Books, NEW from \in Holders, NEW ids \in SUBSET ReserveTokens,
           NEW delivered \in BOOLEAN, Claim(from, ids, delivered),
           NEW t \in ReserveTokens, NEW h \in Holders
    PROVE  NotGiven(t, h) /\ Kept(t, h)
  <1> DEFINE live == {k \in ids : config[k] # None}
             row(k) == [user_data[k] EXCEPT ![from] =
                          [index |-> UpdatedData(k).index, accrued |-> 0]]
  <1>1. /\ data' = [k \in ReserveTokens |-> IF k \in live THEN UpdatedData(k) ELSE data[k]]
        /\ user_data' = [k \in ReserveTokens |-> IF k \notin live THEN user_data[k]
                                                 ELSE row(k)]
        /\ now' = now /\ config' = config /\ balance' = balance /\ supply' = supply
    BY Zenon DEF Claim, tokens
  <1>2. CASE t \notin live
    <2>1. data'[t] = data[t] /\ user_data'[t] = user_data[t]
      BY <1>1, <1>2
    <2> QED BY <1>1, <2>1, EarnsIdle DEF Kept
  <1>3. CASE t \in live
    <2> DEFINE i == UpdatedData(t).index
               j == UpdatedData(t)'.index
    <2>1. /\ config[t] # None /\ config'[t] = config[t] /\ data'[t] = UpdatedData(t)
          /\ user_data'[t] = row(t) /\ supply'[t] = supply[t] /\ supply[t] \in Nat
      BY <1>1, <1>3 DEF Books, Typed
    <2>2. i \in Nat /\ j \in Nat /\ i <= j /\ (supply[t] # 0 => j = i)
      BY <1>1, <2>1, UpdatedAgain
    <2>3. user_data[t] \in Records
      BY <2>1, HoldersInStep
    <2>4. CASE h # from
      BY <2>4, ClaimSparesOthers DEF Kept
    <2>5. CASE h = from
      <3> DEFINE r == [index |-> i, accrued |-> 0]
                 b == balance[t][h]
      <3>1. user_data'[t][h] = r
        BY <2>1, <2>3, <2>5 DEF Records
      <3>2. b \in Nat /\ 0 \in Nat
        BY <2>1, HoldersInStep
      <3>3. Claimable(t, h) \in Nat
        BY ClaimableNat
      <3>4. Claimable(t, h)' = Gained(r, b, j)
        <4>1. config'[t] # None /\ user_data'[t][h] = r /\ balance'[t][h] = b
          BY <1>1, <2>1, <3>1
        <4>2. Claimable(t, h)' = Gained(user_data'[t][h], balance'[t][h], j)
          BY <4>1, ClaimableIs, Zenon
        <4> QED BY <4>1, <4>2, Zenon
      <3> HIDE DEF i, j, b
      <3>5. r # None /\ r.accrued = 0 /\ Gained(r, b, i) = 0
        BY <2>2, <3>2, RecordOwes
      <3> HIDE DEF r
      <3>6. supply[t] # 0 => Claimable(t, h)' <= Claimable(t, h)
        BY <2>2, <3>3, <3>4, <3>5
      <3>7. \A s \in ReserveTokens, g \in Holders \ {h} : NotLost(s, g)
        BY <2>5, ClaimSparesOthers
      <3> QED BY <1>1, <3>1, <3>5, <3>6, <3>7 DEF NotGiven, Kept
    <2> QED BY <2>4, <2>5
  <1> QED BY <1>2, <1>3

\* A gulp starts streams where the replaced ones are: it earns and costs nothing.
LEMMA GulpEarns ==
    ASSUME Books, GulpEmissions, NEW t \in ReserveTokens, NEW h \in Holders
    PROVE  NotLost(t, h) /\ NotGiven(t, h)
  <1> DEFINE c == [expiration |-> now + Week,
                   eps |-> (PartOf(t) + LeftToEmit(t)) \div Week]
             d == [index |-> RestartedIndex(t), last_time |-> now]
  <1>1. /\ config'[t] = IF t \in DOMAIN shares
                        THEN [expiration |-> now + Week,
                              eps |-> (MulFloor(shares[t], pending, Scalar7)
                                         + LeftToEmit(t)) \div Week]
                        ELSE config[t]
        /\ data'[t] = IF t \in DOMAIN shares THEN d ELSE data[t]
        /\ now' = now /\ user_data' = user_data /\ balance' = balance /\ supply' = supply
    BY DEF GulpEmissions, tokens
  <1>2. CASE t \notin DOMAIN shares
    BY <1>1, <1>2, EarnsIdle
  <1>3. CASE t \in DOMAIN shares
    <2>1. config'[t] = c /\ data'[t] = d
      BY <1>1, <1>3 DEF PartOf, ShareOf
    <2>2. /\ c \in ReserveEmissionsConfig /\ c # None
      BY NewStream
    <2>3. /\ d \in ReserveEmissionsData /\ d.last_time = now /\ d.index = RestartedIndex(t)
          /\ RestartedIndex(t) \in Nat /\ now \in Nat /\ now <= now /\ supply[t] \in Nat
      <3>1. RestartedIndex(t) \in Nat
        BY HoldersInStep DEF RestartedIndex
      <3> QED BY <3>1 DEF Books, Typed, ReserveEmissionsData
    <2>4. UpdatedData(t)' = d
      <3>1. UpdatedData(t)' = StreamAt(c, d, supply[t], now)
        BY <1>1, <2>1, ClaimableIs
      <3> HIDE DEF c, d
      <3>2. now <= d.last_time
        BY <2>3
      <3> QED BY <2>2, <2>3, <3>1, <3>2, StreamStill
    <2> HIDE DEF c, d
    <2>5. Claimable(t, h)' = Gained(user_data[t][h], balance[t][h], RestartedIndex(t))
      BY <1>1, <2>1, <2>2, <2>3, <2>4, ClaimableIs
    <2>6. Claimable(t, h) \in Nat
      BY ClaimableNat
    <2>7. Claimable(t, h)' = Claimable(t, h)
      <3>1. CASE config[t] = None
        <4>1. user_data[t][h] = None /\ RestartedIndex(t) = 0 /\ balance[t][h] \in Nat
          BY <3>1 DEF Books, InStep, Typed, RestartedIndex
        <4>2. MulFloor(balance[t][h], 0, SupplyScalar) = 0
          <5>1. balance[t][h] * 0 = 0 /\ 0 \div SupplyScalar = 0
            BY <4>1, PoolEmissionsAssumption
          <5> QED BY <5>1 DEF MulFloor
        <4>3. Claimable(t, h) = 0
          BY <3>1 DEF Claimable
        <4> QED BY <2>5, <4>1, <4>2, <4>3 DEF Gained
      <3>2. CASE config[t] # None
        <4>1. RestartedIndex(t) = UpdatedData(t).index
          BY <3>2 DEF RestartedIndex
        <4> QED BY <2>5, <3>2, <4>1, ClaimableIs
      <3> QED BY <3>1, <3>2
    <2> QED BY <2>6, <2>7 DEF NotLost, NotGiven
  <1> QED BY <1>2, <1>3

\* Time only adds to what can be claimed.
LEMMA TickEarns ==
    ASSUME Books, Tick, NEW t \in ReserveTokens, NEW h \in Holders
    PROVE  NotLost(t, h) /\ now' # now
  <1>1. /\ now \in Nat /\ now' = now + 1
        /\ config'[t] = config[t] /\ data'[t] = data[t] /\ user_data'[t] = user_data[t]
        /\ balance'[t] = balance[t] /\ supply'[t] = supply[t]
    BY DEF Tick, streams, tokens, Books, Typed
  <1>2. CASE config[t] = None
    <2>1. Claimable(t, h)' = 0 /\ Claimable(t, h) = 0
      BY <1>1, <1>2, ClaimableIs
    <2> QED BY <1>1, <2>1 DEF NotLost
  <1>3. CASE config[t] # None
    <2> DEFINE i == UpdatedData(t).index
               j == UpdatedData(t)'.index
               u == user_data[t][h]
               b == balance[t][h]
    <2>1. /\ config[t] \in ReserveEmissionsConfig /\ data[t] \in ReserveEmissionsData
          /\ supply[t] \in Nat
      BY <1>3, Entries DEF Books
    <2>2. /\ i = StreamAt(config[t], data[t], supply[t], now).index
          /\ j = StreamAt(config[t], data[t], supply[t], now').index
          /\ Claimable(t, h) = Gained(u, b, i) /\ Claimable(t, h)' = Gained(u, b, j)
      BY <1>1, <1>3, ClaimableIs
    <2>3. u \in UserEmissionData \cup {None} /\ b \in Nat /\ i \in Nat
          /\ (u # None => u.index <= i)
      BY <1>3, HoldersInStep DEF Records, NotAhead
    <2> HIDE DEF i, j, u, b
    <2>4. now' \in Nat /\ now <= now'
      BY <1>1
    <2>5. j \in Nat /\ i <= j
      BY <1>1, <2>1, <2>2, <2>4, StreamRises, StreamLater
    <2>6. Gained(u, b, i) <= Gained(u, b, j)
      BY <2>3, <2>5, OwedBounds
    <2> QED BY <1>1, <2>2, <2>6 DEF NotLost
  <1> QED BY <1>2, <1>3

\* No step makes anybody lose what they could claim but their claim, and only time
\* lets them earn.
LEMMA StepEarns ==
    ASSUME Books, [Next]_vars, NEW t \in ReserveTokens, NEW h \in Holders
    PROVE  Kept(t, h) /\ (now' = now => NotGiven(t, h))
  <1>1. ASSUME NEW p \in ReserveTokens, NEW bs \in [Holders -> Nat], Change(p, bs, Total(bs))
        PROVE  Kept(t, h) /\ NotGiven(t, h)
    BY <1>1, ChangeEarns DEF Kept
  <1>2. ASSUME NEW p \in ReserveTokens, NEW k \in Holders, NEW n \in Amounts, Mint(p, k, n)
        PROVE  Kept(t, h) /\ NotGiven(t, h)
    BY <1>1, <1>2, MintChanges
  <1>3. ASSUME NEW p \in ReserveTokens, NEW k \in Holders, NEW n \in Amounts, Burn(p, k, n)
        PROVE  Kept(t, h) /\ NotGiven(t, h)
    BY <1>1, <1>3, BurnChanges
  <1>4. ASSUME NEW p \in ReserveTokens, NEW k \in Holders, NEW n \in Amounts,
               NEW to \in Holders, Move(p, k, to, n)
        PROVE  Kept(t, h) /\ NotGiven(t, h)
    BY <1>1, <1>4, MoveChanges
  <1>5. ASSUME NEW k \in Holders, NEW ids \in SUBSET ReserveTokens,
               NEW delivered \in BOOLEAN, Claim(k, ids, delivered)
        PROVE  Kept(t, h) /\ NotGiven(t, h)
    BY <1>5, ClaimEarns DEF Kept
  <1>6. CASE /\ now' = now /\ UNCHANGED <<config, data, user_data, balance, supply>>
    BY <1>6, EarnsIdle DEF Kept
  <1>7. ASSUME NEW s \in Shares, SetPoolEmissions(s) PROVE Kept(t, h) /\ NotGiven(t, h)
    BY <1>6, <1>7 DEF SetPoolEmissions, tokens
  <1>8. CASE GulpEmissions
    BY <1>8, GulpEarns DEF Kept
  <1>9. ASSUME NEW n \in Assigned, BackstopAssigns(n) PROVE Kept(t, h) /\ NotGiven(t, h)
    BY <1>6, <1>9 DEF BackstopAssigns, streams, tokens
  <1>10. CASE AllowanceLapses
    BY <1>6, <1>10 DEF AllowanceLapses, streams, tokens
  <1>11. CASE Tick
    BY <1>11, TickEarns DEF Kept
  <1>12. CASE UNCHANGED vars
    BY <1>6, <1>12 DEF vars, streams, tokens
  <1> QED BY <1>2, <1>3, <1>4, <1>5, <1>7, <1>8, <1>9, <1>10, <1>11, <1>12 DEF Next

\* Nobody's emissions are lost but to a claim of theirs, for any shares, amounts and
\* supply scalar: rounding in the index and the records never takes what could be
\* claimed before.
THEOREM ClaimableOnlyGrowsProved == Spec => ClaimableOnlyGrows
  <1> DEFINE Step ==
         \A t \in ReserveTokens, h \in Holders :
             \/ Claimable(t, h)' >= Claimable(t, h)
             \/ /\ user_data'[t][h] # None /\ user_data'[t][h].accrued = 0
                /\ UNCHANGED <<balance, config>>
                /\ \A s \in ReserveTokens, g \in Holders \ {h} :
                     Claimable(s, g)' >= Claimable(s, g)
  <1>1. ASSUME IInv, [Next]_vars PROVE Step
    BY <1>1, StepEarns DEF IInv, Kept, NotLost
  <1>2. Spec => [][Step]_vars
    <2> HIDE DEF Step
    <2> QED BY <1>1, InvariantHolds, PTL DEF Spec
  <1> QED BY <1>2 DEF ClaimableOnlyGrows

\* In a ledger no call makes anybody's emissions grow, but for the first holder of a
\* token nobody held.
THEOREM NothingEarnedAtOnceProved == Spec => NothingEarnedAtOnce
  <1> DEFINE Step ==
         now' = now =>
           \A t \in ReserveTokens, h \in Holders :
               Claimable(t, h)' <= Claimable(t, h) \/ supply[t] = 0
  <1>1. ASSUME IInv, [Next]_vars PROVE Step
    BY <1>1, StepEarns DEF IInv, NotGiven
  <1>2. Spec => [][Step]_vars
    <2> HIDE DEF Step
    <2> QED BY <1>1, InvariantHolds, PTL DEF Spec
  <1> QED BY <1>2 DEF NothingEarnedAtOnce
=============================================================================
