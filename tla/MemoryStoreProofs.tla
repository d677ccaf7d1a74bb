------------------------- MODULE MemoryStoreProofs -------------------------
(***************************************************************************)
(* Proofs about MemoryStore, for every number of callers, shards, keys,    *)
(* calls and every policy: type correctness, agreement of the two indexes  *)
(* of a shard, the hard bound on stored counters, the all-or-nothing       *)
(* visibility and fail-closed behaviour around poisoning, the honesty of   *)
(* capacity denials, and the refinement of AnchoredWindow.                 *)
(***************************************************************************)
EXTENDS MemoryStore, FiniteSetTheorems, TLAPS

----------------------------------------------------------------------------
(* Numbers and sets                                                        *)

\* A nonempty finite set of naturals has a maximum, and Max chooses it.
LEMMA MaxOfFinite ==
  ASSUME NEW S \in SUBSET Nat, IsFiniteSet(S), S # {}
  PROVE  Max(S) \in S /\ \A y \in S : y <= Max(S)
<1> DEFINE HasMax(A) == \E x \in A : \A y \in A : y <= x
<1> DEFINE Bad == {A \in SUBSET S : A # {} /\ ~HasMax(A)}
<1>1. Bad = {}
  <2> SUFFICES ASSUME Bad # {} PROVE FALSE
    OBVIOUS
  <2>1. IsWellFoundedOn(StrictSubsetOrdering(S), SUBSET S)
    BY FS_StrictSubsetOrderingWellFounded, FS_FiniteSubsetsOfFinite
  <2>2. PICK A \in Bad : \A B \in Bad : ~(<<B, A>> \in StrictSubsetOrdering(S))
    <3>1. Bad \subseteq SUBSET S
      OBVIOUS
    <3> HIDE DEF Bad
    <3> QED BY <2>1, <3>1, WFMin
  <2>3. PICK x \in A : TRUE
    BY <2>2
  <2> DEFINE B == A \ {x}
  <2>4. B # A /\ B \subseteq A /\ B \in SUBSET S /\ A \in SUBSET S
    BY <2>2, <2>3
  <2>5. <<B, A>> \in StrictSubsetOrdering(S)
    BY <2>4 DEF StrictSubsetOrdering
  <2>6. B = {} \/ HasMax(B)
    BY <2>2, <2>4, <2>5
  <2>7. HasMax(A)
    <3>1. A \subseteq Nat
      BY <2>2
    <3>2. CASE B = {}
      <4>1. A = {x}
        BY <2>3, <3>2
      <4> QED BY <4>1, <3>1
    <3>3. CASE HasMax(B)
      <4>1. PICK m \in B : \A y \in B : y <= m
        BY <3>3
      <4>2. CASE x <= m
        BY <4>1, <4>2, <2>3
      <4>3. CASE ~(x <= m)
        <5>1. \A y \in A : y <= x
          BY <4>1, <4>3, <2>3, <3>1
        <5> QED BY <5>1, <2>3
      <4> QED BY <4>2, <4>3
    <3> QED BY <2>6, <3>2, <3>3
  <2> QED BY <2>2, <2>7
<1>2. HasMax(S)
  BY <1>1
<1>3. PICK x \in S : \A y \in S : y <= x
  BY <1>2
<1>4. \A y \in S : x >= y
  BY <1>3
<1>5. Max(S) \in S /\ \A y \in S : Max(S) >= y
  BY <1>4 DEF Max
<1> QED BY <1>5

\* A nonempty set of naturals has a minimum, and Min chooses it.
LEMMA MinOfNaturals ==
  ASSUME NEW S \in SUBSET Nat, S # {}
  PROVE  Min(S) \in S /\ \A y \in S : Min(S) <= y
<1> DEFINE Less(x, y) == <<x, y>> \in OpToRel(<, Nat)
<1>1. PICK n \in S : \A m \in S : ~Less(m, n)
  BY NatLessThanWellFounded, WFMin
<1>2. \A x, y \in Nat : x < y => Less(x, y)
  BY DEF OpToRel
<1> HIDE DEF Less
<1>3. \A y \in S : n <= y
  BY <1>1, <1>2
<1> QED BY <1>3 DEF Min

\* Mapping a finite set of indexes through a function yields at most as many values.
LEMMA ImageBound ==
  ASSUME NEW M, IsFiniteSet(M), NEW T, NEW f \in [M -> T]
  PROVE  /\ IsFiniteSet({f[j] : j \in M})
         /\ Cardinality({f[j] : j \in M}) <= Cardinality(M)
<1> DEFINE R == {f[j] : j \in M}
<1>1. f \in Surjection(M, R)
  BY DEF Surjection
<1> QED BY <1>1, FS_Surjection

\* Arithmetic the SMT backend does not find by itself: products with a common factor.
LEMMA TimesMonotone ==
  ASSUME NEW m \in Nat, NEW n \in Nat, NEW q \in Nat, m <= n
  PROVE  m * q \in Nat /\ n * q \in Nat /\ m * q <= n * q
<1>1. n - m \in Nat /\ n = m + (n - m)
  OBVIOUS
<1>2. (n - m) * q \in Nat /\ m * q \in Nat /\ n * q \in Nat
  BY <1>1
<1>3. n * q = m * q + (n - m) * q
  BY <1>1
<1> QED BY <1>2, <1>3

----------------------------------------------------------------------------
(* The shard operators                                                     *)

\* Every key hashes to one of the configured shards.
LEMMA ShardIndexInRange ==
  ASSUME NEW k \in Key
  PROVE  ShardIndex(k) \in ShardIndexes
<1>1. Hash[k] \in Nat /\ ShardCount \in Nat /\ ShardCount > 0
  BY ShardsAssumption
<1>2. Hash[k] % ShardCount \in 0..(ShardCount - 1)
  BY <1>1
<1> QED BY <1>2 DEF ShardIndex, ShardIndexes

\* Shard capacities are naturals.
LEMMA ShardCapacityType ==
  ASSUME NEW i \in ShardIndexes
  PROVE  ShardCapacity(i) \in Nat
<1>1. MaxKeys \in Nat /\ ShardCount \in Nat /\ ShardCount > 0
  BY ShardsAssumption
<1>2. MaxKeys \div ShardCount \in Nat
  BY <1>1
<1> QED BY <1>2 DEF ShardCapacity

\* The stored keys of any shard form a finite set.
LEMMA StoredFinite ==
  ASSUME NEW shard
  PROVE  /\ Stored(shard) \subseteq Key
         /\ IsFiniteSet(Stored(shard))
         /\ Used(shard) \in Nat
<1>1. Stored(shard) \subseteq Key
  BY DEF Stored
<1>2. IsFiniteSet(Stored(shard))
  BY <1>1, ShardsAssumption, FS_Subset
<1> QED BY <1>1, <1>2, FS_CardinalityType DEF Used

\* A new shard is well typed, empty and indexed.
LEMMA EmptyShardLemma ==
  /\ EmptyShard \in ShardType
  /\ Stored(EmptyShard) = {}
  /\ IndexAgrees(EmptyShard)
<1>1. EmptyShard \in ShardType
  BY DEF EmptyShard, ShardType, Absent
<1>2. Stored(EmptyShard) = {}
  BY DEF EmptyShard, Stored
<1> QED BY <1>1, <1>2 DEF IndexAgrees, EmptyShard

\* Clearing a shard keeps its type and time and leaves it empty and indexed.
LEMMA ClearShardLemma ==
  ASSUME NEW shard \in ShardType
  PROVE  /\ ClearShard(shard) \in ShardType
         /\ ClearShard(shard).latest = shard.latest
         /\ Stored(ClearShard(shard)) = {}
         /\ IndexAgrees(ClearShard(shard))
<1>1. ClearShard(shard) =
        [latest |-> shard.latest, entries |-> [k \in Key |-> Absent], expirations |-> {}]
  BY DEF ClearShard, WithContents
<1>2. ClearShard(shard) \in ShardType
  BY <1>1 DEF ShardType, Absent
<1>3. Stored(ClearShard(shard)) = {}
  BY <1>1 DEF Stored
<1> QED BY <1>1, <1>2, <1>3 DEF IndexAgrees

\* Recording a time changes neither counters nor index.
LEMMA RecordObservedLemma ==
  ASSUME NEW shard \in ShardType, NEW at \in Nat
  PROVE  /\ RecordObserved(shard, at) \in ShardType
         /\ RecordObserved(shard, at).latest = at
         /\ Stored(RecordObserved(shard, at)) = Stored(shard)
         /\ IndexAgrees(shard) => IndexAgrees(RecordObserved(shard, at))
<1>1. RecordObserved(shard, at) =
        [latest |-> at, entries |-> shard.entries, expirations |-> shard.expirations]
  BY DEF RecordObserved
<1>2. RecordObserved(shard, at) \in ShardType
  BY <1>1 DEF ShardType
<1>3. Stored(RecordObserved(shard, at)) = Stored(shard)
  BY <1>1 DEF Stored
<1> QED BY <1>1, <1>2, <1>3 DEF IndexAgrees

\* Pruning removes counters together with their index entries, adds nothing and
\* leaves the recorded time alone.
LEMMA PruneLemma ==
  ASSUME NEW shard \in ShardType, NEW at, NEW limit, IndexAgrees(shard)
  PROVE  /\ PruneExpired(shard, at, limit) \in ShardType
         /\ PruneExpired(shard, at, limit).latest = shard.latest
         /\ Stored(PruneExpired(shard, at, limit)) \subseteq Stored(shard)
         /\ IndexAgrees(PruneExpired(shard, at, limit))
<1> DEFINE gone == PrunedExpirations(shard, at, limit)
<1> DEFINE left == [k \in Key |-> IF \E e \in gone : e[2] = k THEN Absent ELSE shard.entries[k]]
<1> DEFINE P == [latest |-> shard.latest, entries |-> left,
                 expirations |-> shard.expirations \ gone]
<1>1. PruneExpired(shard, at, limit) = P
  BY DEF PruneExpired, WithContents
<1>2. gone \subseteq shard.expirations
  BY DEF PrunedExpirations
<1> HIDE DEF gone
<1>3. P \in ShardType
  BY DEF ShardType, Absent
<1>4. Stored(P) \subseteq Stored(shard)
  BY DEF Stored
<1>5. IndexAgrees(P)
  <2>1. shard.expirations = {<<shard.entries[k].expires, k>> : k \in Stored(shard)}
    BY DEF IndexAgrees
  <2>2. ASSUME NEW k \in Stored(P)
        PROVE  <<P.entries[k].expires, k>> \in P.expirations
    <3>1. k \in Key /\ k \in Stored(shard) /\ P.entries[k] = shard.entries[k]
      BY <1>4 DEF Stored
    <3>2. <<shard.entries[k].expires, k>> \in shard.expirations
      BY <2>1, <3>1
    <3>3. <<shard.entries[k].expires, k>> \notin gone
      BY <2>2, <3>1 DEF Stored
    <3> QED BY <3>1, <3>2, <3>3
  <2>3. ASSUME NEW e \in P.expirations
        PROVE  \E k \in Stored(P) : e = <<P.entries[k].expires, k>>
    <3>1. e \in shard.expirations /\ e \notin gone
      OBVIOUS
    <3>2. PICK k \in Stored(shard) : e = <<shard.entries[k].expires, k>>
      BY <2>1, <3>1
    <3>3. ASSUME NEW g \in gone, g[2] = k PROVE FALSE
      <4>1. PICK h \in Stored(shard) : g = <<shard.entries[h].expires, h>>
        BY <1>2, <2>1
      <4>2. h = k
        BY <4>1, <3>3
      <4> QED BY <4>1, <4>2, <3>1, <3>2
    <3>4. k \in Key
      BY <3>2 DEF Stored
    <3>5. left[k] = shard.entries[k]
      BY <3>3, <3>4
    <3>6. k \in Stored(P)
      BY <3>2, <3>4, <3>5 DEF Stored
    <3> QED BY <3>2, <3>5, <3>6
  <2> HIDE DEF P
  <2> QED BY <2>2, <2>3 DEF IndexAgrees
<1> QED BY <1>1, <1>3, <1>4, <1>5

\* Replacing a counter stores exactly that key, under its one new expiration.
LEMMA ReplaceLemma ==
  ASSUME NEW shard \in ShardType, NEW k \in Key, NEW value \in Nat,
         NEW expires \in Nat \ {0}, IndexAgrees(shard)
  PROVE  /\ Replace(shard, k, value, expires) \in ShardType
         /\ Replace(shard, k, value, expires).latest = shard.latest
         /\ Stored(Replace(shard, k, value, expires)) = Stored(shard) \cup {k}
         /\ IndexAgrees(Replace(shard, k, value, expires))
<1> DEFINE new == [value |-> value, expires |-> expires]
<1> DEFINE R == [latest |-> shard.latest,
                 entries |-> [shard.entries EXCEPT ![k] = new],
                 expirations |-> (shard.expirations \ {<<shard.entries[k].expires, k>>})
                                   \cup {<<expires, k>>}]
<1>1. Replace(shard, k, value, expires) = R
  BY DEF Replace, WithContents
<1>2. R \in ShardType
  BY DEF ShardType
<1>3. \A h \in Key : R.entries[h] = IF h = k THEN new ELSE shard.entries[h]
  BY DEF ShardType
<1>4. new # Absent
  BY DEF Absent
<1>5. Stored(R) = Stored(shard) \cup {k}
  BY <1>3, <1>4 DEF Stored
<1>6. IndexAgrees(R)
  <2>1. shard.expirations = {<<shard.entries[h].expires, h>> : h \in Stored(shard)}
    BY DEF IndexAgrees
  <2>2. ASSUME NEW h \in Stored(R)
        PROVE  <<R.entries[h].expires, h>> \in R.expirations
    <3>0. h \in Key
      BY DEF Stored
    <3>1. CASE h = k
      BY <3>1, <1>3
    <3>2. CASE h # k
      <4>1. h \in Stored(shard) /\ R.entries[h] = shard.entries[h]
        BY <3>0, <3>2, <1>3, <1>5
      <4>2. <<shard.entries[h].expires, h>> \in shard.expirations
        BY <4>1, <2>1
      <4> QED BY <4>1, <4>2, <3>2
    <3> QED BY <3>1, <3>2
  <2>3. ASSUME NEW e \in R.expirations
        PROVE  \E h \in Stored(R) : e = <<R.entries[h].expires, h>>
    <3>1. CASE e = <<expires, k>>
      <4>1. k \in Stored(R)
        BY <1>5
      <4>2. R.entries[k] = new
        BY <1>3
      <4>3. <<R.entries[k].expires, k>> = e
        BY <3>1, <4>2
      <4> HIDE DEF R
      <4> QED BY <4>1, <4>3
    <3>2. CASE e \in shard.expirations /\ e # <<shard.entries[k].expires, k>>
      <4>1. PICK h \in Stored(shard) : e = <<shard.entries[h].expires, h>>
        BY <2>1, <3>2
      <4>2. h # k /\ h \in Key
        BY <4>1, <3>2 DEF Stored
      <4>3. h \in Stored(R) /\ R.entries[h] = shard.entries[h]
        BY <4>1, <4>2, <1>3, <1>5
      <4> QED BY <4>1, <4>3
    <3> QED BY <3>1, <3>2
  <2> HIDE DEF R
  <2> QED BY <2>2, <2>3 DEF IndexAgrees
<1> QED BY <1>1, <1>2, <1>5, <1>6

\* Consuming a check stores at most its own key and keeps the index exact.
LEMMA ConsumeLemma ==
  ASSUME NEW shard \in ShardType, NEW c \in [key : Key, cost : Nat, mode : QuotaMode],
         NEW at \in Nat, IndexAgrees(shard)
  PROVE  /\ Consume(shard, c, at) \in ShardType
         /\ Consume(shard, c, at).latest = shard.latest
         /\ Stored(Consume(shard, c, at)) = Stored(shard) \cup {c.key}
         /\ IndexAgrees(Consume(shard, c, at))
<1> DEFINE k == c.key
<1>0. k \in Key /\ c.cost \in Nat /\ Window[k] \in Nat \ {0}
  BY MemoryStoreAssumption
<1>1. CASE ActiveEntry(shard, k, at)
  <2> DEFINE U == [latest |-> shard.latest,
                   entries |-> [shard.entries EXCEPT ![k] =
                                  [value |-> shard.entries[k].value + c.cost,
                                   expires |-> shard.entries[k].expires]],
                   expirations |-> shard.expirations]
  <2>1. Consume(shard, c, at) = U
    BY <1>1 DEF Consume, UpdateValue, WithContents
  <2>2. U \in ShardType
    BY <1>0 DEF ShardType
  <2>3. \A h \in Key : h # k => U.entries[h] = shard.entries[h]
    BY DEF ShardType
  <2>4. U.entries[k].expires = shard.entries[k].expires /\ shard.entries[k].expires # 0
    BY <1>0, <1>1 DEF ShardType, ActiveEntry
  <2>5. k \in Stored(shard) /\ k \in Stored(U)
    BY <1>0, <2>4 DEF Stored, Absent
  <2>6. Stored(U) = Stored(shard)
    BY <2>3, <2>5 DEF Stored
  <2>7. \A h \in Key : U.entries[h].expires = shard.entries[h].expires
    BY <2>3, <2>4
  <2>8. IndexAgrees(U)
    BY <2>6, <2>7 DEF IndexAgrees, Stored
  <2> QED BY <2>1, <2>2, <2>5, <2>6, <2>8
<1>2. CASE ~ActiveEntry(shard, k, at)
  <2>1. Consume(shard, c, at) = Replace(shard, k, c.cost, at + Window[k])
    BY <1>2 DEF Consume
  <2>2. at + Window[k] \in Nat \ {0}
    BY <1>0
  <2> QED BY <1>0, <2>1, <2>2, ReplaceLemma
<1> QED BY <1>1, <1>2

----------------------------------------------------------------------------
(* Operations and the decision                                             *)

\* The checks of any operation a caller can be running.
LEMMA OperationLemma ==
  ASSUME NEW o \in Operation \cup {Idle}
  PROVE  /\ o \in OperationType
         /\ o.checks \in Seq([key : Key, cost : Nat, mode : QuotaMode])
         /\ DOMAIN o.checks = 1..Len(o.checks)
         /\ Len(o.checks) \in Nat
         /\ \A j \in DOMAIN o.checks : o.checks[j] \in [key : Key, cost : Nat, mode : QuotaMode]
         /\ TouchedShards(o.checks) \subseteq ShardIndexes
         /\ ShardsToLock(o) \subseteq ShardIndexes
<1>1. o \in OperationType
  <2>1. CASE o \in Operation
    BY <2>1, MemoryStoreAssumption
  <2>2. CASE o = Idle
    BY <2>2 DEF Idle, OperationType
  <2> QED BY <2>1, <2>2
<1>2. o.checks \in Seq([key : Key, cost : Nat, mode : QuotaMode])
  BY <1>1 DEF OperationType
<1>3. /\ DOMAIN o.checks = 1..Len(o.checks)
      /\ Len(o.checks) \in Nat
      /\ \A j \in DOMAIN o.checks : o.checks[j] \in [key : Key, cost : Nat, mode : QuotaMode]
  <2> DEFINE C == [key : Key, cost : Nat, mode : QuotaMode]
  <2>1. o.checks \in Seq(C)
    BY <1>2
  <2> HIDE DEF C
  <2>2. DOMAIN o.checks = 1..Len(o.checks) /\ Len(o.checks) \in Nat
    BY <2>1
  <2>3. \A j \in DOMAIN o.checks : o.checks[j] \in C
    BY <2>1
  <2> QED BY <2>2, <2>3 DEF C
<1>4. TouchedShards(o.checks) \subseteq ShardIndexes
  BY <1>3, ShardIndexInRange DEF TouchedShards
<1> QED BY <1>1, <1>2, <1>3, <1>4 DEF ShardsToLock

\* The clamped time is at least the time of every shard the caller holds.
LEMMA ClampedNowLemma ==
  ASSUME Typed, NEW t \in Caller, NEW observed \in Time
  PROVE  /\ ClampedNow(t, observed) \in Nat
         /\ \A i \in Held(t) : shards[i].latest <= ClampedNow(t, observed)
<1> DEFINE L == [i \in Held(t) |-> shards[i].latest]
           R == {L[i] : i \in Held(t)}
           S == {observed} \cup R
<1>1. observed \in Nat
  BY MemoryStoreAssumption
<1>2. \A i \in Held(t) : shards[i].latest \in Nat
  BY DEF Typed, Held, ShardType
<1>3. IsFiniteSet(Held(t))
  <2>1. IsFiniteSet(ShardIndexes)
    BY ShardsAssumption, FS_Interval DEF ShardIndexes
  <2>2. Held(t) \subseteq ShardIndexes
    BY DEF Held
  <2> QED BY <2>1, <2>2, FS_Subset
<1>4. IsFiniteSet(R)
  <2>1. L \in [Held(t) -> Nat]
    BY <1>2
  <2> HIDE DEF L
  <2> QED BY <2>1, <1>3, ImageBound
<1>5. S \in SUBSET Nat /\ S # {} /\ IsFiniteSet(S)
  <2>1. IsFiniteSet(R \cup {observed})
    BY <1>4, FS_AddElement
  <2>2. S = R \cup {observed}
    OBVIOUS
  <2> QED BY <1>1, <1>2, <2>1, <2>2
<1>6. S = {observed} \cup {shards[i].latest : i \in Held(t)}
  OBVIOUS
<1>7. Max(S) \in S /\ \A y \in S : y <= Max(S)
  BY <1>5, MaxOfFinite
<1>8. ClampedNow(t, observed) = Max(S)
  BY <1>6 DEF ClampedNow
<1> HIDE DEF S
<1>9. \A i \in Held(t) : shards[i].latest \in S
  BY <1>6
<1> QED BY <1>5, <1>7, <1>8, <1>9

\* Recording the time and pruning keep every shard well typed and indexed, store
\* nothing new, and leave the shards the caller does not hold alone.
LEMMA RefreshedLemma ==
  ASSUME Typed, IndexesAgree, NEW t \in Caller, NEW at \in Nat
  PROVE  /\ Refreshed(t, at) \in [ShardIndexes -> ShardType]
         /\ \A i \in ShardIndexes :
              /\ IndexAgrees(Refreshed(t, at)[i])
              /\ Stored(Refreshed(t, at)[i]) \subseteq Stored(shards[i])
              /\ Refreshed(t, at)[i].latest = IF i \in Held(t) THEN at ELSE shards[i].latest
              /\ i \notin Held(t) => Refreshed(t, at)[i] = shards[i]
<1>1. ASSUME NEW i \in ShardIndexes
      PROVE  /\ Refreshed(t, at)[i] \in ShardType
             /\ IndexAgrees(Refreshed(t, at)[i])
             /\ Stored(Refreshed(t, at)[i]) \subseteq Stored(shards[i])
             /\ Refreshed(t, at)[i].latest = IF i \in Held(t) THEN at ELSE shards[i].latest
             /\ i \notin Held(t) => Refreshed(t, at)[i] = shards[i]
  <2>1. shards[i] \in ShardType /\ IndexAgrees(shards[i])
    BY DEF Typed, IndexesAgree
  <2>2. CASE i \notin Held(t)
    BY <2>1, <2>2 DEF Refreshed
  <2>3. CASE i \in Held(t)
    <3> DEFINE r == RecordObserved(shards[i], at)
               l == RemovalLimit(op[t].checks, i)
    <3>1. Refreshed(t, at)[i] = PruneExpired(r, at, l)
      BY <2>3 DEF Refreshed
    <3>2. r \in ShardType /\ IndexAgrees(r) /\ Stored(r) = Stored(shards[i]) /\ r.latest = at
      BY <2>1, RecordObservedLemma
    <3> HIDE DEF r, l
    <3> QED BY <2>3, <3>1, <3>2, PruneLemma
  <2> QED BY <2>2, <2>3
<1>2. Refreshed(t, at) = [i \in ShardIndexes |-> Refreshed(t, at)[i]]
  BY DEF Refreshed
<1> QED BY <1>1, <1>2

\* The capacity hint is a natural number.
LEMMA RetryType ==
  ASSUME NEW shard \in ShardType, NEW at \in Nat
  PROVE  CapacityRetryAfter(shard, at) \in Nat
<1> DEFINE E == {e[1] : e \in shard.expirations}
<1>1. CASE shard.expirations = {}
  BY <1>1 DEF CapacityRetryAfter, NoRetry
<1>2. CASE shard.expirations # {}
  <2>1. E \in SUBSET Nat /\ E # {}
    BY <1>2 DEF ShardType
  <2>2. Min(E) \in Nat
    BY <2>1, MinOfNaturals
  <2>3. CapacityRetryAfter(shard, at) = IF Min(E) > at THEN Min(E) - at ELSE 1
    BY <1>2 DEF CapacityRetryAfter
  <2> HIDE DEF E
  <2> QED BY <2>2, <2>3
<1> QED BY <1>1, <1>2

\* A decision is a well-typed reply, it admits only when no check is denied, and
\* when it refuses for want of room it names the check and the shard's own delay.
LEMMA DecisionLemma ==
  ASSUME NEW s \in [ShardIndexes -> ShardType], NEW o \in Operation \cup {Idle}, NEW at \in Nat
  PROVE  /\ Decision(s, o.checks, at) \in [outcome : Outcome, index : Nat, retry : Nat]
         /\ Decision(s, o.checks, at).outcome = "allowed" =>
              \A j \in DOMAIN o.checks : ~CapacityDenied(s, o.checks, j)
         /\ Decision(s, o.checks, at).outcome = "capacity_denied" =>
              \E j \in DOMAIN o.checks :
                 /\ Decision(s, o.checks, at).index = j
                 /\ CapacityDenied(s, o.checks, j)
                 /\ Decision(s, o.checks, at).retry =
                      CapacityRetryAfter(s[ShardIndex(o.checks[j].key)], at)
<1> DEFINE checks == o.checks
           j == FirstDenied(s, checks, at)
           denied == {h \in DOMAIN checks :
                        QuotaDenied(s, checks[h], at) \/ CapacityDenied(s, checks, h)}
<1>1. DOMAIN checks \subseteq Nat \ {0}
  BY OperationLemma
<1>2. /\ denied = {} => j = 0
      /\ denied # {} => j \in denied /\ j # 0
  <2>1. CASE denied = {}
    BY <2>1 DEF FirstDenied
  <2>2. CASE denied # {}
    <3>1. denied \in SUBSET Nat
      BY <1>1
    <3>2. Min(denied) \in denied
      BY <2>2, <3>1, MinOfNaturals
    <3>3. j = Min(denied)
      BY <2>2 DEF FirstDenied
    <3> QED BY <1>1, <3>2, <3>3
  <2> QED BY <2>1, <2>2
<1>3. CASE j = 0
  <2>1. Decision(s, checks, at) = Reply("allowed", 0, 0)
    BY <1>3 DEF Decision
  <2>2. denied = {}
    BY <1>2, <1>3
  <2> QED BY <2>1, <2>2 DEF Reply, Outcome
<1>4. CASE j # 0
  <2> DEFINE c == checks[j]
             shard == s[ShardIndex(c.key)]
  <2>1. j \in DOMAIN checks /\ j \in Nat
    BY <1>1, <1>2, <1>4
  <2>2. c \in [key : Key, cost : Nat, mode : QuotaMode]
    BY <2>1, OperationLemma
  <2>3. c.key \in Key /\ shard \in ShardType
    BY <2>2, ShardIndexInRange
  <2>4. CASE QuotaDenied(s, c, at)
    <3>1. Decision(s, checks, at) =
            Reply(IF c.mode = "Shadow" THEN "shadow_denied" ELSE "quota_denied",
                  j, shard.entries[c.key].expires - at)
      BY <1>4, <2>4 DEF Decision
    <3>2. shard.entries[c.key].expires \in Nat /\ shard.entries[c.key].expires > at
      BY <2>3, <2>4 DEF QuotaDenied, ActiveEntry, ShardType
    <3>3. shard.entries[c.key].expires - at \in Nat
      BY <3>2
    <3> HIDE DEF j, c, shard
    <3> QED BY <2>1, <3>1, <3>3 DEF Reply, Outcome
  <2>5. CASE ~QuotaDenied(s, c, at)
    <3>1. Decision(s, checks, at) = Reply("capacity_denied", j, CapacityRetryAfter(shard, at))
      BY <1>4, <2>5 DEF Decision
    <3>2. CapacityRetryAfter(shard, at) \in Nat
      BY <2>3, RetryType
    <3>3. CapacityDenied(s, checks, j)
      BY <1>2, <1>4, <2>5
    <3> QED BY <2>1, <3>1, <3>2, <3>3 DEF Reply, Outcome
  <2> QED BY <2>4, <2>5
<1> QED BY <1>3, <1>4

\* If no check of an operation is refused for want of room, its shard has room for
\* all of its keys together.
LEMMA RoomLemma ==
  ASSUME NEW s \in [ShardIndexes -> ShardType], NEW o \in Operation \cup {Idle},
         \A j \in DOMAIN o.checks : ~CapacityDenied(s, o.checks, j),
         NEW i \in ShardIndexes, Used(s[i]) <= ShardCapacity(i)
  PROVE  Cardinality(Stored(s[i]) \cup
                     {k \in Key : \E j \in DOMAIN o.checks :
                                    o.checks[j].key = k /\ ShardIndex(k) = i})
           <= ShardCapacity(i)
<1> DEFINE checks == o.checks
           D == DOMAIN checks
           K == {k \in Key : \E j \in D : checks[j].key = k /\ ShardIndex(k) = i}
           M == {j \in D : Missing(s, checks[j]) /\ ShardIndex(checks[j].key) = i}
           f == [j \in M |-> checks[j].key]
           N == {f[j] : j \in M}
<1>1. D = 1..Len(checks) /\ Len(checks) \in Nat /\ D \subseteq Nat
  BY OperationLemma
<1>2. \A j \in D : checks[j].key \in Key
  BY OperationLemma
<1>3. IsFiniteSet(M) /\ M \in SUBSET Nat
  <2>1. IsFiniteSet(D)
    BY <1>1, FS_Interval
  <2> QED BY <1>1, <2>1, FS_Subset
<1>4. Stored(s[i]) \cup K = Stored(s[i]) \cup N
  <2>1. ASSUME NEW k \in K PROVE k \in Stored(s[i]) \cup N
    <3>1. PICK j \in D : checks[j].key = k /\ ShardIndex(k) = i
      OBVIOUS
    <3>2. CASE j \in M
      BY <3>1, <3>2
    <3>3. CASE j \notin M
      BY <3>1, <3>3 DEF Missing, ContainsKey
    <3> QED BY <3>2, <3>3
  <2>2. N \subseteq K
    BY <1>2
  <2> QED BY <2>1, <2>2
<1>5. IsFiniteSet(N) /\ Cardinality(N) <= Cardinality(M)
  <2>1. f \in [M -> Key]
    BY <1>2
  <2> HIDE DEF f, M
  <2> QED BY <2>1, <1>3, ImageBound
<1>6. IsFiniteSet(Stored(s[i])) /\ Used(s[i]) \in Nat /\ Used(s[i]) = Cardinality(Stored(s[i]))
  BY StoredFinite DEF Used
<1>7. Cardinality(Stored(s[i]) \cup N) <= Used(s[i]) + Cardinality(M)
  <2>1. Cardinality(Stored(s[i]) \cup N) =
          Cardinality(Stored(s[i])) + Cardinality(N) - Cardinality(Stored(s[i]) \cap N)
    BY <1>5, <1>6, FS_Union
  <2>2. Cardinality(Stored(s[i]) \cap N) \in Nat /\ Cardinality(N) \in Nat
    <3>1. IsFiniteSet(Stored(s[i]) \cap N)
      BY <1>5, FS_Subset
    <3> QED BY <1>5, <3>1, FS_CardinalityType
  <2>3. Cardinality(M) \in Nat
    BY <1>3, FS_CardinalityType
  <2> HIDE DEF M, N
  <2> QED BY <1>5, <1>6, <2>1, <2>2, <2>3
<1>8. Used(s[i]) + Cardinality(M) <= ShardCapacity(i)
  <2>1. CASE M = {}
    <3>1. Cardinality(M) = 0
      BY <2>1, FS_EmptySet
    <3> HIDE DEF M
    <3> QED BY <1>6, <3>1, ShardCapacityType
  <2>2. CASE M # {}
    <3>1. PICK m \in M : \A j \in M : j <= m
      BY <1>3, <2>2, MaxOfFinite
    <3> DEFINE L == {h \in 1..(m - 1) :
                      Missing(s, checks[h]) /\ ShardIndex(checks[h].key) = ShardIndex(checks[m].key)}
    <3>2. m \in D /\ m \in Nat /\ ShardIndex(checks[m].key) = i /\ Missing(s, checks[m])
      BY <1>1, <3>1
    <3>3. L = M \ {m}
      <4>1. ASSUME NEW h \in L PROVE h \in M \ {m}
        <5>1. h \in Nat /\ 1 <= h /\ h < m
          BY <3>2
        <5>2. h \in D
          BY <1>1, <3>2, <5>1
        <5> QED BY <3>2, <5>1, <5>2
      <4>2. ASSUME NEW h \in M \ {m} PROVE h \in L
        <5>1. h \in Nat /\ h <= m /\ h # m /\ 1 <= h
          BY <1>1, <3>1
        <5>2. h \in 1..(m - 1)
          BY <3>2, <5>1
        <5> QED BY <3>2, <5>2
      <4> QED BY <4>1, <4>2
    <3>4. Cardinality(L) = Cardinality(M) - 1
      <4> HIDE DEF L, M
      <4> QED BY <1>3, <3>1, <3>3, FS_RemoveElement
    <3>5. ~(Used(s[i]) + Cardinality(L) >= ShardCapacity(i))
      BY <3>2 DEF CapacityDenied, PendingInsertions
    <3>6. Cardinality(M) \in Nat
      BY <1>3, FS_CardinalityType
    <3> HIDE DEF L, M
    <3> QED BY <1>6, <3>4, <3>5, <3>6, ShardCapacityType
  <2> QED BY <2>1, <2>2
<1>9. Cardinality(Stored(s[i]) \cup N) \in Nat /\ Cardinality(M) \in Nat
  <2>1. IsFiniteSet(Stored(s[i]) \cup N)
    BY <1>5, <1>6, FS_Union
  <2> QED BY <1>3, <2>1, FS_CardinalityType
<1>10. Cardinality(Stored(s[i]) \cup K) <= ShardCapacity(i)
  <2>1. Cardinality(Stored(s[i]) \cup N) <= ShardCapacity(i)
    <3> HIDE DEF M, N
    <3> QED BY <1>6, <1>7, <1>8, <1>9, ShardCapacityType
  <2> QED BY <1>4, <2>1
<1> QED BY <1>10

----------------------------------------------------------------------------
(* The inductive invariant                                                 *)

\* The store starts in the invariant.
LEMMA InitInv == Init => Inv
<1> SUFFICES ASSUME Init PROVE Inv
  OBVIOUS
<1>1. Typed
  BY EmptyShardLemma DEF Init, Typed, Step, NoReply, Outcome
<1>2. LockInv
  BY MemoryStoreAssumption DEF Init, LockInv, Held
<1>3. IndexesAgree
  BY EmptyShardLemma DEF Init, IndexesAgree
<1>4. HardBound
  <2> SUFFICES ASSUME NEW i \in ShardIndexes PROVE Used(shards[i]) <= ShardCapacity(i)
    BY DEF HardBound
  <2>1. Used(shards[i]) = 0
    BY EmptyShardLemma, FS_EmptySet DEF Init, Used
  <2> QED BY <2>1, ShardCapacityType
<1>5. RoomInv
  BY DEF Init, RoomInv
<1>6. PoisonInv
  BY DEF Init, PoisonInv
<1>7. RebuildInv
  BY DEF Init, RebuildInv
<1> QED BY <1>1, <1>2, <1>3, <1>4, <1>5, <1>6, <1>7 DEF Inv

\* Submitting an operation, refused or not, preserves the invariant.
LEMMA SubmitInv ==
  ASSUME Inv, NEW t \in Caller, RejectBatch(t) \/ Begin(t)
  PROVE  Inv'
<1> USE DEF Inv
<1>1. PICK o \in Operation :
        /\ pc[t] = "idle"
        /\ op' = [op EXCEPT ![t] = o]
        /\ calls' = calls + 1
        /\ UNCHANGED <<shards, poisoned, owner, todo, now>>
        /\ \/ /\ UNCHANGED <<pc, wanted>>
              /\ reply' = [reply EXCEPT ![t] = Reply("invalid", 0, 0)]
           \/ /\ pc' = [pc EXCEPT ![t] = "locking"]
              /\ wanted' = [wanted EXCEPT ![t] = ShardsToLock(o)]
              /\ reply' = [reply EXCEPT ![t] = Pending]
  BY DEF RejectBatch, Begin, Submit
<1>2. ShardsToLock(o) \subseteq ShardIndexes
  BY OperationLemma
<1>3. Typed'
  <2>1. calls + 1 \in Nat /\ Reply("invalid", 0, 0) \in [outcome : Outcome, index : Nat, retry : Nat]
        /\ Pending \in [outcome : Outcome, index : Nat, retry : Nat]
    BY DEF Typed, Outcome, Reply, Pending
  <2>2. op' \in [Caller -> Operation \cup {Idle}]
    BY <1>1 DEF Typed
  <2>3. reply' \in [Caller -> [outcome : Outcome, index : Nat, retry : Nat]]
    BY <1>1, <2>1 DEF Typed
  <2>4. pc' \in [Caller -> Step]
    BY <1>1 DEF Typed, Step
  <2>5. wanted' \in [Caller -> SUBSET ShardIndexes]
    BY <1>1, <1>2 DEF Typed
  <2> QED BY <1>1, <2>1, <2>2, <2>3, <2>4, <2>5 DEF Typed
<1>4. Held(t) = {} /\ \A u \in Caller : Held(u)' = Held(u)
  BY <1>1 DEF LockInv, Held
<1>5. LockInv'
  BY <1>1, <1>4 DEF LockInv, Typed
<1>6. IndexesAgree' /\ HardBound'
  BY <1>1 DEF IndexesAgree, HardBound
<1>7. RoomInv'
  <2> SUFFICES ASSUME NEW u \in Caller, pc'[u] = "writing", IsCheck(op[u])', NEW i \in Held(u)'
               PROVE  (Cardinality(Stored(shards[i]) \cup PendingKeys(u, i)) <= ShardCapacity(i))'
    BY DEF RoomInv
  <2>1. u # t /\ op'[u] = op[u] /\ pc'[u] = pc[u] /\ shards' = shards /\ todo' = todo
    BY <1>1 DEF Typed
  <2>2. PendingKeys(u, i)' = PendingKeys(u, i) /\ IsCheck(op[u])
    BY <2>1 DEF PendingKeys, IsCheck
  <2> QED BY <1>4, <2>1, <2>2 DEF RoomInv
<1>8. PoisonInv'
  BY <1>1, <1>4 DEF PoisonInv, Typed, Held
<1>9. RebuildInv'
  BY <1>1 DEF RebuildInv, Typed
<1> QED BY <1>3, <1>5, <1>6, <1>7, <1>8, <1>9

\* Taking a lock preserves the invariant.
LEMMA AcquireInv ==
  ASSUME Inv, NEW t \in Caller, NEW i \in ShardIndexes, Acquire(t, i)
  PROVE  Inv'
<1> USE DEF Inv
<1>1. /\ pc[t] = "locking" /\ owner[i] = NoCaller /\ i \in wanted[t]
      /\ ~RefusedByPoison(t, i)
      /\ owner' = [owner EXCEPT ![i] = t]
      /\ wanted' = [wanted EXCEPT ![t] = @ \ {i}]
      /\ pc' = [pc EXCEPT ![t] = IF wanted[t] = {i} THEN "working" ELSE "locking"]
      /\ UNCHANGED <<shards, poisoned, op, todo, now, reply, calls>>
  BY DEF Acquire, Lockable, IsFirst
<1>2. Typed'
  BY <1>1 DEF Typed, Step
<1>3. Held(t)' = Held(t) \cup {i} /\ \A u \in Caller \ {t} : Held(u)' = Held(u)
  BY <1>1, MemoryStoreAssumption DEF Held, Typed
<1>4. LockInv'
  <2> SUFFICES ASSUME NEW u \in Caller
               PROVE  /\ pc'[u] = "idle" => Held(u)' = {}
                      /\ pc'[u] = "locking" => Held(u)' \cup wanted'[u] = ShardsToLock(op'[u])
                      /\ pc'[u] \in {"working", "writing"} => Held(u)' = ShardsToLock(op'[u])
                      /\ pc'[u] = "writing" =>
                           todo'[u] \subseteq
                             (IF IsCheck(op'[u]) THEN DOMAIN op'[u].checks ELSE ShardIndexes)
                      /\ pc'[u] = "writing" /\ IsCheck(op'[u]) => op'[u] \in Operation
    BY DEF LockInv
  <2>1. CASE u = t
    BY <1>1, <1>3, <2>1 DEF LockInv, Typed
  <2>2. CASE u # t
    BY <1>1, <1>3, <2>2 DEF LockInv, Typed
  <2> QED BY <2>1, <2>2
<1>5. IndexesAgree' /\ HardBound'
  BY <1>1 DEF IndexesAgree, HardBound
<1>6. RoomInv'
  <2> SUFFICES ASSUME NEW u \in Caller, pc'[u] = "writing", IsCheck(op[u])', NEW h \in Held(u)'
               PROVE  (Cardinality(Stored(shards[h]) \cup PendingKeys(u, h)) <= ShardCapacity(h))'
    BY DEF RoomInv
  <2>1. u # t /\ pc'[u] = pc[u]
    BY <1>1 DEF Typed
  <2>2. PendingKeys(u, h)' = PendingKeys(u, h) /\ IsCheck(op[u])
    BY <1>1 DEF PendingKeys, IsCheck
  <2> QED BY <1>1, <1>3, <2>1, <2>2 DEF RoomInv
<1>7. PoisonInv'
  BY <1>1 DEF PoisonInv, Typed, RefusedByPoison
<1>8. RebuildInv'
  BY <1>1 DEF RebuildInv, Typed
<1> QED BY <1>2, <1>4, <1>5, <1>6, <1>7, <1>8

\* The steps that touch no shard, no lock and no reservation: failing on poison, a
\* panicking clock, reading statistics, and starting to clear or recover.
LEMMA BookkeepingInv ==
  ASSUME Inv, NEW t \in Caller,
         \/ \E i \in ShardIndexes : FailPoisoned(t, i)
         \/ ClockPanic(t)
         \/ Stats(t)
         \/ StartSweep(t),
         Typed'
  PROVE  Inv'
<1> USE DEF Inv
<1>1. UNCHANGED <<shards, poisoned, owner, op, now, calls>>
  BY DEF FailPoisoned, ClockPanic, Stats, StartSweep
<1>2. \A u \in Caller : Held(u)' = Held(u)
  BY <1>1 DEF Held
<1>3. /\ \A u \in Caller \ {t} : pc'[u] = pc[u] /\ todo'[u] = todo[u] /\ wanted'[u] = wanted[u]
      /\ pc'[t] = "idle" => Held(t) = {}
      /\ pc'[t] \notin {"locking", "working"}
      /\ pc'[t] = "writing" =>
           /\ pc[t] = "working" /\ ~IsCheck(op[t])
           /\ todo'[t] \subseteq ShardIndexes
  <2>1. CASE \E i \in ShardIndexes : FailPoisoned(t, i)
    BY <2>1 DEF FailPoisoned, Typed
  <2>2. CASE ClockPanic(t)
    BY <2>2 DEF ClockPanic, Typed
  <2>3. CASE Stats(t)
    BY <2>3 DEF Stats, Typed
  <2>4. CASE StartSweep(t)
    BY <2>4 DEF StartSweep, Typed, IsCheck
  <2> QED BY <2>1, <2>2, <2>3, <2>4
<1>4. LockInv'
  BY <1>1, <1>2, <1>3 DEF LockInv
<1>5. IndexesAgree' /\ HardBound'
  BY <1>1 DEF IndexesAgree, HardBound
<1>6. RoomInv'
  <2> SUFFICES ASSUME NEW u \in Caller, pc'[u] = "writing", IsCheck(op[u])', NEW h \in Held(u)'
               PROVE  (Cardinality(Stored(shards[h]) \cup PendingKeys(u, h)) <= ShardCapacity(h))'
    BY DEF RoomInv
  <2>1. u # t /\ pc'[u] = pc[u] /\ todo'[u] = todo[u]
    BY <1>1, <1>3 DEF IsCheck
  <2>2. PendingKeys(u, h)' = PendingKeys(u, h) /\ IsCheck(op[u])
    BY <1>1, <2>1 DEF PendingKeys, IsCheck
  <2> QED BY <1>1, <1>2, <2>1, <2>2 DEF RoomInv
<1>7. PoisonInv'
  BY <1>1 DEF PoisonInv
<1>8. RebuildInv'
  <2> SUFFICES ASSUME NEW u \in Caller, pc'[u] = "writing", op'[u].kind = "recover"
               PROVE  todo'[u] \subseteq poisoned'
    BY DEF RebuildInv
  <2>1. CASE u # t
    BY <1>1, <1>3, <2>1 DEF RebuildInv
  <2>2. CASE u = t
    BY <1>1, <2>2 DEF FailPoisoned, ClockPanic, Stats, StartSweep, Typed
  <2> QED BY <2>1, <2>2
<1> QED BY <1>4, <1>5, <1>6, <1>7, <1>8

\* The same steps keep every variable in its type.
LEMMA BookkeepingType ==
  ASSUME Inv, NEW t \in Caller,
         \/ \E i \in ShardIndexes : FailPoisoned(t, i)
         \/ ClockPanic(t)
         \/ Stats(t)
         \/ StartSweep(t)
  PROVE  Typed'
<1> USE DEF Inv
<1> DEFINE Answer == [outcome : Outcome, index : Nat, retry : Nat]
<1>1. UNCHANGED <<shards, poisoned, owner, op, now, calls>>
  BY DEF FailPoisoned, ClockPanic, Stats, StartSweep
<1>2. \A n \in Nat, w \in {"poisoned", "panicked", "stats", "done"} : Reply(w, n, 0) \in Answer
  BY DEF Reply, Outcome
<1>3. Cardinality(StoredAnywhere) \in Nat
  <2>1. ShardIndexes \subseteq Nat /\ IsFiniteSet(ShardIndexes)
    BY ShardsAssumption, FS_Interval DEF ShardIndexes
  <2>2. IsFiniteSet(ShardIndexes \X Key)
    BY <2>1, ShardsAssumption, FS_Product
  <2>3. IsFiniteSet(StoredAnywhere)
    BY <2>2, FS_Subset DEF StoredAnywhere
  <2> QED BY <2>3, FS_CardinalityType
<1>4. reply' \in [Caller -> Answer]
  <2>1. reply \in [Caller -> Answer]
    BY DEF Typed
  <2>2. \E w \in {"poisoned", "panicked", "stats", "done"}, n \in Nat :
          reply' = [reply EXCEPT ![t] = Reply(w, n, 0)]
    BY <1>3 DEF FailPoisoned, ClockPanic, Stats, StartSweep
  <2> HIDE DEF Answer
  <2> QED BY <1>2, <2>1, <2>2
<1>5. pc' \in [Caller -> Step]
  BY DEF FailPoisoned, ClockPanic, Stats, StartSweep, Typed, Step
<1>6. wanted' \in [Caller -> SUBSET ShardIndexes]
  BY DEF FailPoisoned, ClockPanic, Stats, StartSweep, Typed
<1>7. todo' \in [Caller -> SUBSET Nat]
  <2>1. ShardIndexes \subseteq Nat /\ poisoned \subseteq Nat
    BY ShardsAssumption DEF ShardIndexes, Typed
  <2>2. todo \in [Caller -> SUBSET Nat]
    BY DEF Typed
  <2>3. CASE ~StartSweep(t)
    BY <2>2, <2>3 DEF FailPoisoned, ClockPanic, Stats
  <2>4. CASE StartSweep(t)
    BY <2>1, <2>2, <2>4 DEF StartSweep
  <2> QED BY <2>3, <2>4
<1> QED BY <1>1, <1>4, <1>5, <1>6, <1>7 DEF Typed

\* Deciding a check or a batch preserves the invariant; when it is admitted the
\* capacity tests have reserved room for all of its counters.
LEMMA EvaluateInv ==
  ASSUME Inv, NEW t \in Caller, NEW observed \in Time, Evaluate(t, observed)
  PROVE  Inv'
<1> USE DEF Inv
<1> DEFINE at == ClampedNow(t, observed)
           fresh == Refreshed(t, at)
           decision == Decision(fresh, op[t].checks, at)
<1>1. /\ pc[t] = "working" /\ IsCheck(op[t])
      /\ shards' = fresh
      /\ now' = [now EXCEPT ![t] = at]
      /\ reply' = [reply EXCEPT ![t] = decision]
      /\ \/ /\ decision.outcome = "allowed"
            /\ todo' = [todo EXCEPT ![t] = DOMAIN op[t].checks]
            /\ pc' = [pc EXCEPT ![t] = "writing"]
         \/ /\ decision.outcome # "allowed"
            /\ pc' = [pc EXCEPT ![t] = "releasing"]
            /\ todo' = todo
      /\ UNCHANGED <<poisoned, owner, op, wanted, calls>>
  BY DEF Evaluate
<1>2. at \in Nat
  BY ClampedNowLemma
<1>3. /\ fresh \in [ShardIndexes -> ShardType]
      /\ \A i \in ShardIndexes : IndexAgrees(fresh[i]) /\ Stored(fresh[i]) \subseteq Stored(shards[i])
      /\ \A i \in ShardIndexes \ Held(t) : fresh[i] = shards[i]
  BY <1>2, RefreshedLemma
<1>4. op[t] \in Operation \cup {Idle}
  BY DEF Typed
<1>5. /\ decision \in [outcome : Outcome, index : Nat, retry : Nat]
      /\ decision.outcome = "allowed" =>
           \A j \in DOMAIN op[t].checks : ~CapacityDenied(fresh, op[t].checks, j)
  BY <1>2, <1>3, <1>4, DecisionLemma
<1>6. DOMAIN op[t].checks \subseteq Nat
  BY <1>4, OperationLemma
<1>7. \A u \in Caller : Held(u)' = Held(u)
  BY <1>1 DEF Held
<1>8. op[t] \in Operation
  BY <1>1, <1>4 DEF IsCheck, Idle
<1> HIDE DEF at, fresh, decision
<1>9. Typed'
  <2>1. pc' \in [Caller -> Step] /\ todo' \in [Caller -> SUBSET Nat]
    BY <1>1, <1>6 DEF Typed, Step
  <2>2. now' \in [Caller -> Nat] /\ reply' \in [Caller -> [outcome : Outcome, index : Nat, retry : Nat]]
    BY <1>1, <1>2, <1>5 DEF Typed
  <2> QED BY <1>1, <1>3, <2>1, <2>2 DEF Typed
<1>10. LockInv'
  <2> SUFFICES ASSUME NEW u \in Caller
               PROVE  /\ pc'[u] = "idle" => Held(u)' = {}
                      /\ pc'[u] = "locking" => Held(u)' \cup wanted'[u] = ShardsToLock(op'[u])
                      /\ pc'[u] \in {"working", "writing"} => Held(u)' = ShardsToLock(op'[u])
                      /\ pc'[u] = "writing" =>
                           todo'[u] \subseteq
                             (IF IsCheck(op'[u]) THEN DOMAIN op'[u].checks ELSE ShardIndexes)
                      /\ pc'[u] = "writing" /\ IsCheck(op'[u]) => op'[u] \in Operation
    BY DEF LockInv
  <2>1. CASE u = t
    BY <1>1, <1>7, <1>8, <2>1 DEF LockInv, Typed
  <2>2. CASE u # t
    BY <1>1, <1>7, <2>2 DEF LockInv, Typed
  <2> QED BY <2>1, <2>2
<1>11. IndexesAgree'
  BY <1>1, <1>3 DEF IndexesAgree
<1>12. \A i \in ShardIndexes : Used(fresh[i]) <= ShardCapacity(i)
  <2> SUFFICES ASSUME NEW i \in ShardIndexes PROVE Used(fresh[i]) <= ShardCapacity(i)
    OBVIOUS
  <2>1. Cardinality(Stored(fresh[i])) <= Cardinality(Stored(shards[i]))
    BY <1>3, StoredFinite, FS_Subset
  <2>2. Used(shards[i]) <= ShardCapacity(i)
    BY DEF HardBound
  <2> QED BY <2>1, <2>2, StoredFinite, ShardCapacityType DEF Used
<1>13. HardBound'
  BY <1>1, <1>12 DEF HardBound
<1>14. RoomInv'
  <2> SUFFICES ASSUME NEW u \in Caller, pc'[u] = "writing", IsCheck(op[u])', NEW i \in Held(u)'
               PROVE  (Cardinality(Stored(shards[i]) \cup PendingKeys(u, i)) <= ShardCapacity(i))'
    BY DEF RoomInv
  <2>0. i \in ShardIndexes
    BY DEF Held
  <2>1. CASE u = t
    <3>1. todo'[t] = DOMAIN op[t].checks /\ decision.outcome = "allowed" /\ op' = op
      BY <1>1, <2>1 DEF Typed
    <3>2. PendingKeys(t, i)' = {k \in Key : \E j \in DOMAIN op[t].checks :
                                   op[t].checks[j].key = k /\ ShardIndex(k) = i}
      BY <3>1 DEF PendingKeys
    <3>3. Cardinality(Stored(fresh[i]) \cup
                      {k \in Key : \E j \in DOMAIN op[t].checks :
                                     op[t].checks[j].key = k /\ ShardIndex(k) = i})
            <= ShardCapacity(i)
      BY <1>3, <1>4, <1>5, <1>12, <2>0, <3>1, RoomLemma
    <3> QED BY <1>1, <2>1, <3>2, <3>3
  <2>2. CASE u # t
    <3>1. pc[u] = "writing" /\ op'[u] = op[u] /\ todo'[u] = todo[u] /\ IsCheck(op[u])
      BY <1>1, <2>2 DEF Typed, IsCheck
    <3>2. i \in Held(u) /\ i \notin Held(t)
      BY <1>7, <2>2 DEF Held
    <3>3. PendingKeys(u, i)' = PendingKeys(u, i) /\ shards'[i] = shards[i]
      BY <1>1, <1>3, <2>0, <3>1, <3>2 DEF PendingKeys
    <3> QED BY <3>1, <3>2, <3>3 DEF RoomInv
  <2> QED BY <2>1, <2>2
<1>15. PoisonInv'
  BY <1>1 DEF PoisonInv
<1>16. RebuildInv'
  BY <1>1 DEF RebuildInv, Typed, IsCheck
<1> QED BY <1>9, <1>10, <1>11, <1>13, <1>14, <1>15, <1>16

\* Writing one counter of an admitted operation preserves the invariant: its room
\* was reserved, and the reservation shrinks by exactly what the shard gains.
LEMMA ConsumeInv ==
  ASSUME Inv, NEW t \in Caller, ConsumeNext(t)
  PROVE  Inv'
<1> USE DEF Inv
<1>1. PICK j \in todo[t] :
        /\ pc[t] = "writing" /\ IsCheck(op[t])
        /\ shards' = [shards EXCEPT ![ShardIndex(op[t].checks[j].key)] =
                         Consume(@, op[t].checks[j], now[t])]
        /\ todo' = [todo EXCEPT ![t] = @ \ {j}]
        /\ pc' = [pc EXCEPT ![t] = IF todo[t] = {j} THEN "releasing" ELSE "writing"]
        /\ UNCHANGED <<poisoned, owner, op, wanted, now, reply, calls>>
  BY DEF ConsumeNext, AfterWrite
<1> DEFINE c == op[t].checks[j]
           i == ShardIndex(c.key)
<1>2. op[t] \in Operation \cup {Idle} /\ j \in DOMAIN op[t].checks
  BY <1>1 DEF LockInv, Typed
<1>3. c \in [key : Key, cost : Nat, mode : QuotaMode] /\ c.key \in Key /\ i \in ShardIndexes
  BY <1>2, OperationLemma, ShardIndexInRange
<1>4. i \in Held(t)
  BY <1>1, <1>2 DEF LockInv, ShardsToLock, IsCheck, TouchedShards
<1>5. shards[i] \in ShardType /\ IndexAgrees(shards[i]) /\ now[t] \in Nat
  BY <1>3 DEF Typed, IndexesAgree
<1> HIDE DEF c, i
<1>6. /\ Consume(shards[i], c, now[t]) \in ShardType
      /\ Stored(Consume(shards[i], c, now[t])) = Stored(shards[i]) \cup {c.key}
      /\ IndexAgrees(Consume(shards[i], c, now[t]))
  BY <1>3, <1>5, ConsumeLemma
<1>7. shards' = [shards EXCEPT ![i] = Consume(shards[i], c, now[t])]
  BY <1>1 DEF c, i
<1>8. \A u \in Caller : Held(u)' = Held(u)
  BY <1>1 DEF Held
<1>9. Typed'
  <2>1. shards' \in [ShardIndexes -> ShardType]
    BY <1>3, <1>6, <1>7 DEF Typed
  <2>2. pc' \in [Caller -> Step] /\ todo' \in [Caller -> SUBSET Nat]
    BY <1>1 DEF Typed, Step
  <2> QED BY <1>1, <2>1, <2>2 DEF Typed
<1>10. LockInv'
  <2> SUFFICES ASSUME NEW u \in Caller
               PROVE  /\ pc'[u] = "idle" => Held(u)' = {}
                      /\ pc'[u] = "locking" => Held(u)' \cup wanted'[u] = ShardsToLock(op'[u])
                      /\ pc'[u] \in {"working", "writing"} => Held(u)' = ShardsToLock(op'[u])
                      /\ pc'[u] = "writing" =>
                           todo'[u] \subseteq
                             (IF IsCheck(op'[u]) THEN DOMAIN op'[u].checks ELSE ShardIndexes)
                      /\ pc'[u] = "writing" /\ IsCheck(op'[u]) => op'[u] \in Operation
    BY DEF LockInv
  <2>1. CASE u = t
    BY <1>1, <1>8, <2>1 DEF LockInv, Typed
  <2>2. CASE u # t
    BY <1>1, <1>8, <2>2 DEF LockInv, Typed
  <2> QED BY <2>1, <2>2
<1>11. IndexesAgree'
  BY <1>6, <1>7 DEF IndexesAgree, Typed
<1>12. Stored(shards'[i]) = Stored(shards[i]) \cup {c.key} /\ \A h \in ShardIndexes \ {i} : shards'[h] = shards[h]
  BY <1>3, <1>6, <1>7 DEF Typed
<1>13. c.key \in PendingKeys(t, i)
  BY <1>1, <1>3 DEF PendingKeys, c, i
<1>14. ASSUME NEW S, S \subseteq Stored(shards[i]) \cup PendingKeys(t, i)
       PROVE  Cardinality(S) <= ShardCapacity(i)
  <2> DEFINE R == Stored(shards[i]) \cup PendingKeys(t, i)
  <2>1. Cardinality(R) <= ShardCapacity(i)
    BY <1>1, <1>4 DEF RoomInv
  <2>2. IsFiniteSet(R)
    <3>1. R \subseteq Key
      BY DEF Stored, PendingKeys
    <3> QED BY <3>1, ShardsAssumption, FS_Subset
  <2>3. IsFiniteSet(S) /\ Cardinality(S) <= Cardinality(R)
    BY <1>14, <2>2, FS_Subset
  <2>4. Cardinality(S) \in Nat /\ Cardinality(R) \in Nat
    BY <2>2, <2>3, FS_CardinalityType
  <2> HIDE DEF R
  <2> QED BY <1>3, <2>1, <2>3, <2>4, ShardCapacityType
<1>15. HardBound'
  <2> SUFFICES ASSUME NEW h \in ShardIndexes PROVE Used(shards'[h]) <= ShardCapacity(h)
    BY DEF HardBound
  <2>1. CASE h = i
    <3>1. Stored(shards'[i]) \subseteq Stored(shards[i]) \cup PendingKeys(t, i)
      BY <1>12, <1>13
    <3> QED BY <1>14, <2>1, <3>1 DEF Used
  <2>2. CASE h # i
    BY <1>12, <2>2 DEF HardBound
  <2> QED BY <2>1, <2>2
<1>16. RoomInv'
  <2> SUFFICES ASSUME NEW u \in Caller, pc'[u] = "writing", IsCheck(op[u])', NEW h \in Held(u)'
               PROVE  (Cardinality(Stored(shards[h]) \cup PendingKeys(u, h)) <= ShardCapacity(h))'
    BY DEF RoomInv
  <2>0. h \in ShardIndexes /\ h \in Held(u) /\ op' = op /\ pc[u] = "writing" /\ IsCheck(op[u])
    BY <1>1, <1>8 DEF Held, Typed
  <2>1. PendingKeys(u, h)' \subseteq PendingKeys(u, h)
    <3>1. todo'[u] \subseteq todo[u]
      BY <1>1 DEF Typed
    <3> QED BY <2>0, <3>1 DEF PendingKeys
  <2>2. CASE u = t /\ h = i
    <3>1. Stored(shards'[h]) \cup PendingKeys(u, h)' \subseteq Stored(shards[i]) \cup PendingKeys(t, i)
      BY <1>12, <1>13, <2>1, <2>2
    <3>2. Cardinality(Stored(shards'[h]) \cup PendingKeys(u, h)') <= ShardCapacity(i)
      BY <1>14, <3>1
    <3> QED BY <2>2, <3>2
  <2>3. CASE u = t /\ h # i
    <3>1. PendingKeys(t, h)' = PendingKeys(t, h)
      <4>1. \A k \in Key : ShardIndex(k) = h => c.key # k
        BY <2>3 DEF i
      <4>2. todo'[t] = todo[t] \ {j}
        BY <1>1 DEF Typed
      <4> QED BY <2>0, <4>1, <4>2 DEF PendingKeys, c
    <3> QED BY <1>12, <2>0, <2>3, <3>1 DEF RoomInv
  <2>4. CASE u # t
    <3>1. h # i
      BY <1>4, <2>0, <2>4 DEF Held
    <3>2. todo'[u] = todo[u]
      BY <1>1, <2>4 DEF Typed
    <3>3. PendingKeys(u, h)' = PendingKeys(u, h)
      BY <2>0, <3>2 DEF PendingKeys
    <3> QED BY <1>12, <2>0, <3>1, <3>3 DEF RoomInv
  <2> QED BY <2>2, <2>3, <2>4
<1>17. PoisonInv'
  BY <1>1 DEF PoisonInv
<1>18. RebuildInv'
  BY <1>1 DEF RebuildInv, Typed, IsCheck
<1> QED BY <1>9, <1>10, <1>11, <1>15, <1>16, <1>17, <1>18

\* Emptying one shard, to clear it or to rebuild it, preserves the invariant.
LEMMA SweepInv ==
  ASSUME Inv, NEW t \in Caller, ClearNext(t) \/ RebuildNext(t)
  PROVE  Inv'
<1> USE DEF Inv
<1>1. PICK i \in todo[t] :
        /\ pc[t] = "writing" /\ ~IsCheck(op[t])
        /\ \/ shards' = [shards EXCEPT ![i] = ClearShard(shards[i])]
           \/ shards' = [shards EXCEPT ![i] = EmptyShard]
        /\ todo' = [todo EXCEPT ![t] = @ \ {i}]
        /\ pc' = [pc EXCEPT ![t] = IF todo[t] = {i} THEN "releasing" ELSE "writing"]
        /\ \/ poisoned' = poisoned
           \/ poisoned' = poisoned \ {i}
        /\ UNCHANGED <<owner, op, wanted, now, reply, calls>>
  BY DEF ClearNext, RebuildNext, AfterWrite, IsCheck
<1>2. i \in ShardIndexes /\ shards[i] \in ShardType
  BY <1>1 DEF LockInv, Typed
<1>3. i \in Held(t)
  BY <1>1, <1>2 DEF LockInv, ShardsToLock, IsCheck
<1>4. PICK s \in {ClearShard(shards[i]), EmptyShard} : shards' = [shards EXCEPT ![i] = s]
  BY <1>1
<1>5. /\ s \in ShardType /\ Stored(s) = {} /\ IndexAgrees(s)
      /\ shards'[i] = s /\ \A h \in ShardIndexes \ {i} : shards'[h] = shards[h]
  BY <1>2, <1>4, ClearShardLemma, EmptyShardLemma DEF Typed
<1>6. \A u \in Caller : Held(u)' = Held(u)
  BY <1>1 DEF Held
<1>7. Typed'
  BY <1>1, <1>2, <1>4, <1>5 DEF Typed, Step
<1>8. LockInv'
  <2> SUFFICES ASSUME NEW u \in Caller
               PROVE  /\ pc'[u] = "idle" => Held(u)' = {}
                      /\ pc'[u] = "locking" => Held(u)' \cup wanted'[u] = ShardsToLock(op'[u])
                      /\ pc'[u] \in {"working", "writing"} => Held(u)' = ShardsToLock(op'[u])
                      /\ pc'[u] = "writing" =>
                           todo'[u] \subseteq
                             (IF IsCheck(op'[u]) THEN DOMAIN op'[u].checks ELSE ShardIndexes)
                      /\ pc'[u] = "writing" /\ IsCheck(op'[u]) => op'[u] \in Operation
    BY DEF LockInv
  <2>1. CASE u = t
    BY <1>1, <1>6, <2>1 DEF LockInv, Typed
  <2>2. CASE u # t
    BY <1>1, <1>6, <2>2 DEF LockInv, Typed
  <2> QED BY <2>1, <2>2
<1>9. IndexesAgree'
  BY <1>5 DEF IndexesAgree
<1>10. HardBound'
  <2> SUFFICES ASSUME NEW h \in ShardIndexes PROVE Used(shards'[h]) <= ShardCapacity(h)
    BY DEF HardBound
  <2>1. CASE h = i
    <3>1. Used(shards'[i]) = 0
      BY <1>5, FS_EmptySet DEF Used
    <3> QED BY <2>1, <3>1, ShardCapacityType
  <2>2. CASE h # i
    BY <1>5, <2>2 DEF HardBound
  <2> QED BY <2>1, <2>2
<1>11. RoomInv'
  <2> SUFFICES ASSUME NEW u \in Caller, pc'[u] = "writing", IsCheck(op[u])', NEW h \in Held(u)'
               PROVE  (Cardinality(Stored(shards[h]) \cup PendingKeys(u, h)) <= ShardCapacity(h))'
    BY DEF RoomInv
  <2>1. u # t /\ op' = op
    BY <1>1
  <2>2. pc[u] = "writing" /\ IsCheck(op[u]) /\ todo'[u] = todo[u] /\ h \in Held(u)
    BY <1>1, <1>6, <2>1 DEF Typed
  <2>3. h # i /\ h \in ShardIndexes
    BY <1>3, <2>1, <2>2 DEF Held
  <2>4. PendingKeys(u, h)' = PendingKeys(u, h)
    BY <2>1, <2>2 DEF PendingKeys
  <2> QED BY <1>5, <2>2, <2>3, <2>4 DEF RoomInv
<1>12. PoisonInv'
  BY <1>1 DEF PoisonInv
<1>13. RebuildInv'
  <2> SUFFICES ASSUME NEW u \in Caller, pc'[u] = "writing", op'[u].kind = "recover"
               PROVE  todo'[u] \subseteq poisoned'
    BY DEF RebuildInv
  <2>1. pc[u] = "writing" /\ op[u].kind = "recover"
    BY <1>1 DEF Typed
  <2>2. u = t
    BY <1>2, <1>3, <2>1 DEF LockInv, ShardsToLock, Held
  <2> QED BY <1>1, <2>1, <2>2 DEF RebuildInv, Typed
<1> QED BY <1>7, <1>8, <1>9, <1>10, <1>11, <1>12, <1>13

\* Dropping a guard, whether or not it poisons the shard, preserves the invariant.
LEMMA UnlockInv ==
  ASSUME Inv, NEW t \in Caller, Release(t) \/ Unwind(t)
  PROVE  Inv'
<1> USE DEF Inv
<1>1. PICK i \in Held(t) :
        /\ pc[t] \in {"releasing", "panicking"}
        /\ owner' = [owner EXCEPT ![i] = NoCaller]
        /\ pc' = [pc EXCEPT ![t] = IF Held(t) = {i} THEN "idle" ELSE pc[t]]
        /\ poisoned' \in {poisoned, poisoned \cup {i}}
        /\ UNCHANGED <<shards, op, wanted, todo, now, reply, calls>>
  BY DEF Release, Unwind, Unlock
<1>2. i \in ShardIndexes /\ owner[i] = t /\ owner'[i] = NoCaller
      /\ \A h \in ShardIndexes \ {i} : owner'[h] = owner[h]
  BY <1>1 DEF Held, Typed
<1>3. Held(t)' = Held(t) \ {i} /\ \A u \in Caller \ {t} : Held(u)' = Held(u)
  BY <1>2, MemoryStoreAssumption DEF Held
<1>4. /\ pc'[t] = (IF Held(t) = {i} THEN "idle" ELSE pc[t])
      /\ \A u \in Caller \ {t} : pc'[u] = pc[u]
  BY <1>1 DEF Typed
<1>5. Typed'
  BY <1>1, <1>2 DEF Typed, Step
<1>6. LockInv'
  <2> SUFFICES ASSUME NEW u \in Caller
               PROVE  /\ pc'[u] = "idle" => Held(u)' = {}
                      /\ pc'[u] = "locking" => Held(u)' \cup wanted'[u] = ShardsToLock(op'[u])
                      /\ pc'[u] \in {"working", "writing"} => Held(u)' = ShardsToLock(op'[u])
                      /\ pc'[u] = "writing" =>
                           todo'[u] \subseteq
                             (IF IsCheck(op'[u]) THEN DOMAIN op'[u].checks ELSE ShardIndexes)
                      /\ pc'[u] = "writing" /\ IsCheck(op'[u]) => op'[u] \in Operation
    BY DEF LockInv
  <2>1. CASE u = t
    BY <1>1, <1>3, <1>4, <2>1
  <2>2. CASE u # t
    BY <1>1, <1>3, <1>4, <2>2 DEF LockInv
  <2> QED BY <2>1, <2>2
<1>7. IndexesAgree' /\ HardBound'
  BY <1>1 DEF IndexesAgree, HardBound
<1>8. RoomInv'
  <2> SUFFICES ASSUME NEW u \in Caller, pc'[u] = "writing", IsCheck(op[u])', NEW h \in Held(u)'
               PROVE  (Cardinality(Stored(shards[h]) \cup PendingKeys(u, h)) <= ShardCapacity(h))'
    BY DEF RoomInv
  <2>1. u # t /\ pc[u] = "writing" /\ h \in Held(u) /\ op' = op /\ todo' = todo /\ shards' = shards
    BY <1>1, <1>3, <1>4
  <2>2. PendingKeys(u, h)' = PendingKeys(u, h) /\ IsCheck(op[u])
    BY <2>1 DEF PendingKeys
  <2> QED BY <2>1, <2>2 DEF RoomInv
<1>9. PoisonInv'
  <2> SUFFICES ASSUME NEW u \in Caller, NEW h \in ShardIndexes, owner'[h] = u, h \in poisoned'
               PROVE  op'[u].kind = "recover"
    BY DEF PoisonInv
  <2>1. h # i
    BY <1>2, MemoryStoreAssumption
  <2> QED BY <1>1, <1>2, <2>1 DEF PoisonInv
<1>10. RebuildInv'
  <2> SUFFICES ASSUME NEW u \in Caller, pc'[u] = "writing", op'[u].kind = "recover"
               PROVE  todo'[u] \subseteq poisoned'
    BY DEF RebuildInv
  <2>1. pc[u] = "writing"
    BY <1>1, <1>4
  <2> QED BY <1>1, <2>1 DEF RebuildInv
<1> QED BY <1>5, <1>6, <1>7, <1>8, <1>9, <1>10

\* The conjunction Inv is an invariant: ordered locks, exclusive guards and
\* reserved room hold in every reachable state, for every instance.
THEOREM Invariance == Spec => []Inv
<1>1. Init => Inv
  BY InitInv
<1>2. Inv /\ [Next]_vars => Inv'
  <2> SUFFICES ASSUME Inv, [Next]_vars PROVE Inv'
    OBVIOUS
  <2>1. CASE UNCHANGED vars
    <3>1. \A u \in Caller : Held(u)' = Held(u)
      BY <2>1 DEF vars, Held
    <3>2. \A u \in Caller, i \in ShardIndexes : PendingKeys(u, i)' = PendingKeys(u, i)
      BY <2>1 DEF vars, PendingKeys
    <3> QED BY <2>1, <3>1, <3>2
            DEF vars, Inv, Typed, LockInv, IndexesAgree, HardBound, RoomInv, PoisonInv, RebuildInv, Held
  <2>2. CASE \E t \in Caller : RejectBatch(t) \/ Begin(t) \/ Work(t)
    <3> SUFFICES ASSUME NEW t \in Caller, RejectBatch(t) \/ Begin(t) \/ Work(t) PROVE Inv'
      BY <2>2
    <3>1. CASE RejectBatch(t) \/ Begin(t)
      BY <3>1, SubmitInv
    <3>2. CASE \E i \in ShardIndexes : Acquire(t, i)
      BY <3>2, AcquireInv
    <3>3. CASE (\E i \in ShardIndexes : FailPoisoned(t, i)) \/ ClockPanic(t) \/ Stats(t) \/ StartSweep(t)
      BY <3>3, BookkeepingType, BookkeepingInv
    <3>4. CASE \E observed \in Time : Evaluate(t, observed)
      BY <3>4, EvaluateInv
    <3>5. CASE ConsumeNext(t)
      BY <3>5, ConsumeInv
    <3>6. CASE ClearNext(t) \/ RebuildNext(t)
      BY <3>6, SweepInv
    <3>7. CASE Release(t) \/ Unwind(t)
      BY <3>7, UnlockInv
    <3> QED BY <3>1, <3>2, <3>3, <3>4, <3>5, <3>6, <3>7 DEF Work
  <2>3. CASE Finished
    BY <2>1, <2>3 DEF Finished
  <2> QED BY <2>1, <2>2, <2>3 DEF Next
<1> QED BY <1>1, <1>2, PTL DEF Spec

\* A caller that is not locking wants nothing, and one that is has locked from below.
WaitInv ==
    \A t \in Caller :
        /\ pc[t] # "locking" => wanted[t] = {}
        /\ \A i \in Held(t), j \in wanted[t] : i < j

\* Every step keeps it: the shard acquired is the least one still wanted.
LEMMA WaitStep ==
  ASSUME Inv, WaitInv, [Next]_vars
  PROVE  WaitInv'
<1> SUFFICES ASSUME NEW u \in Caller
             PROVE  /\ pc'[u] # "locking" => wanted'[u] = {}
                    /\ \A i \in Held(u)', j \in wanted'[u] : i < j
  BY DEF WaitInv
<1>0. /\ pc[u] # "locking" => wanted[u] = {}
      /\ \A i \in Held(u), j \in wanted[u] : i < j
  BY DEF WaitInv
<1>1. Typed /\ LockInv
  BY DEF Inv
<1>2. \A i \in ShardIndexes : i \in Nat
  BY ShardsAssumption DEF ShardIndexes
<1>3. ASSUME NEW t \in Caller, RejectBatch(t) \/ Begin(t)
      PROVE  /\ pc'[u] # "locking" => wanted'[u] = {}
             /\ \A i \in Held(u)', j \in wanted'[u] : i < j
  <2>1. UNCHANGED owner /\ pc[t] = "idle"
    BY <1>3 DEF RejectBatch, Begin, Submit
  <2>2. Held(u)' = Held(u)
    BY <2>1 DEF Held
  <2>3. CASE RejectBatch(t)
    BY <1>0, <2>2, <2>3 DEF RejectBatch
  <2>4. CASE Begin(t) /\ u # t
    <3>1. pc'[u] = pc[u] /\ wanted'[u] = wanted[u]
      BY <1>1, <2>4 DEF Begin, Typed
    <3> QED BY <1>0, <2>2, <3>1
  <2>5. CASE Begin(t) /\ u = t
    <3>1. pc'[u] = "locking" /\ Held(u)' = {}
      BY <1>1, <2>1, <2>2, <2>5 DEF Begin, Typed, LockInv
    <3> QED BY <3>1
  <2> QED BY <1>3, <2>3, <2>4, <2>5
<1>4. ASSUME NEW t \in Caller, NEW i \in ShardIndexes, Acquire(t, i)
      PROVE  /\ pc'[u] # "locking" => wanted'[u] = {}
             /\ \A m \in Held(u)', j \in wanted'[u] : m < j
  <2>1. /\ pc[t] = "locking" /\ i \in wanted[t] /\ (\A j \in wanted[t] : i <= j) /\ owner[i] = NoCaller
        /\ owner' = [owner EXCEPT ![i] = t]
        /\ wanted' = [wanted EXCEPT ![t] = @ \ {i}]
        /\ pc' = [pc EXCEPT ![t] = IF wanted[t] = {i} THEN "working" ELSE "locking"]
    BY <1>4 DEF Acquire, Lockable, IsFirst
  <2>2. CASE u # t
    <3>1. pc'[u] = pc[u] /\ wanted'[u] = wanted[u]
      BY <1>1, <2>1, <2>2 DEF Typed
    <3>2. Held(u)' \subseteq Held(u)
      BY <1>1, <2>1, <2>2 DEF Held, Typed
    <3> QED BY <1>0, <3>1, <3>2
  <2>3. CASE u = t
    <3>1. wanted'[u] = wanted[u] \ {i} /\ pc'[u] = IF wanted[u] = {i} THEN "working" ELSE "locking"
      BY <1>1, <2>1, <2>3 DEF Typed
    <3>2. Held(u)' \subseteq Held(u) \cup {i}
      BY <1>1, <2>1, <2>3 DEF Held, Typed
    <3>3. ASSUME NEW m \in Held(u)', NEW j \in wanted'[u] PROVE m < j
      <4>1. j \in wanted[u] /\ j # i /\ i <= j /\ j \in Nat /\ i \in Nat
        BY <1>1, <1>2, <2>1, <2>3, <3>1, <3>3 DEF Typed
      <4> QED BY <1>0, <3>2, <3>3, <4>1
    <3> QED BY <3>1, <3>3
  <2> QED BY <2>2, <2>3
<1>5. ASSUME NEW t \in Caller,
             \/ \E i \in ShardIndexes : FailPoisoned(t, i)
             \/ \E observed \in Time : Evaluate(t, observed)
             \/ ConsumeNext(t) \/ ClockPanic(t) \/ Stats(t) \/ StartSweep(t) \/ ClearNext(t)
             \/ RebuildNext(t)
      PROVE  /\ pc'[u] # "locking" => wanted'[u] = {}
             /\ \A i \in Held(u)', j \in wanted'[u] : i < j
  <2>1. UNCHANGED owner
    BY <1>5 DEF FailPoisoned, Evaluate, ConsumeNext, ClockPanic, Stats, StartSweep, ClearNext, RebuildNext
  <2>2. Held(u)' = Held(u)
    BY <2>1 DEF Held
  <2>3. CASE \E i \in ShardIndexes : FailPoisoned(t, i)
    <3>1. wanted'[u] = (IF u = t THEN {} ELSE wanted[u]) /\ (u # t => pc'[u] = pc[u])
      BY <1>1, <2>3 DEF FailPoisoned, Typed
    <3> QED BY <1>0, <2>2, <3>1
  <2>4. CASE ~\E i \in ShardIndexes : FailPoisoned(t, i)
    <3>1. UNCHANGED wanted /\ pc[t] # "locking" /\ (u # t => pc'[u] = pc[u])
      BY <1>1, <1>5, <2>4
         DEF Evaluate, ConsumeNext, ClockPanic, Stats, StartSweep, ClearNext, RebuildNext, AfterWrite, Typed
    <3> QED BY <1>0, <2>2, <3>1
  <2> QED BY <2>3, <2>4
<1>6. ASSUME NEW t \in Caller, Release(t) \/ Unwind(t)
      PROVE  /\ pc'[u] # "locking" => wanted'[u] = {}
             /\ \A i \in Held(u)', j \in wanted'[u] : i < j
  <2>1. PICK i \in Held(t) : Unlock(t, i)
    BY <1>6 DEF Release, Unwind
  <2>2. UNCHANGED wanted /\ pc[t] # "locking" /\ (u # t => pc'[u] = pc[u])
    BY <1>1, <1>6, <2>1 DEF Release, Unwind, Unlock, Typed
  <2>3. Held(u)' \subseteq Held(u)
    BY <1>1, <2>1, MemoryStoreAssumption DEF Unlock, Held, Typed
  <2> QED BY <1>0, <2>2, <2>3
<1>7. CASE UNCHANGED vars \/ Finished
  <2>1. UNCHANGED <<pc, wanted, owner>>
    BY <1>7 DEF vars, Finished
  <2> QED BY <1>0, <2>1 DEF Held
<1> QED BY <1>3, <1>4, <1>5, <1>6, <1>7 DEF Next, Work

\* Every variable stays in its type, and whoever waits for a shard holds lower ones only.
THEOREM TypeCorrectness == Spec => []TypeOK
<1>1. Init => WaitInv
  BY MemoryStoreAssumption DEF Init, WaitInv, Held
<1>2. Inv /\ Inv' /\ WaitInv /\ [Next]_vars => WaitInv'
  BY WaitStep
<1>3. Inv /\ WaitInv => TypeOK
  BY DEF Inv, WaitInv, TypeOK
<1> QED BY <1>1, <1>2, <1>3, Invariance, PTL DEF Spec

\* Entries and expirations never diverge, in any interleaving of consumption,
\* pruning, clearing and recovery.
THEOREM IndexConsistency == Spec => []IndexesAgree
BY Invariance, PTL DEF Inv

\* No shard ever stores more counters than its share of max_keys, whatever the
\* number of callers, shards, keys and batch sizes.
THEOREM Boundedness == Spec => []HardBound
BY Invariance, PTL DEF Inv

\* While a recovery is rebuilding shards nobody else is inside any shard.
THEOREM RecoveryIsAtomic == Spec => []RecoveryAllOrNothing
<1>1. Inv => RecoveryAllOrNothing
  <2> SUFFICES ASSUME Inv, NEW r \in Caller, pc[r] = "writing", op[r].kind = "recover",
                      NEW t \in Caller \ {r}
               PROVE  Held(t) = {}
    BY DEF RecoveryAllOrNothing
  <2>1. Held(r) = ShardIndexes
    BY DEF Inv, LockInv, ShardsToLock
  <2> QED BY <2>1 DEF Held
<1> QED BY <1>1, Invariance, PTL

\* Poisoned shards are frozen until they are rebuilt, and only a rebuild moves a
\* shard's time backwards.
THEOREM PoisonedShardsFrozen == Spec => PoisonFailsClosed
<1> DEFINE Frozen(i) ==
      /\ i \in poisoned =>
           shards'[i] = shards[i] \/ (shards'[i] = EmptyShard /\ i \notin poisoned')
      /\ shards'[i].latest < shards[i].latest => i \in poisoned
<1>1. Inv /\ [Next]_vars => [\A i \in ShardIndexes : Frozen(i)]_vars
  <2> HIDE DEF Frozen
  <2> SUFFICES ASSUME Inv, Next, NEW i \in ShardIndexes PROVE Frozen(i)
    OBVIOUS
  <2> USE DEF Frozen
  <2> USE DEF Inv
  <2>0. shards[i] \in ShardType /\ shards[i].latest \in Nat
    BY DEF Typed, ShardType
  <2>1. ASSUME shards'[i] = shards[i] PROVE Frozen(i)
    BY <2>0, <2>1
  <2>2. ASSUME NEW t \in Caller, ~(op[t].kind = "recover"), i \in Held(t) PROVE i \notin poisoned
    BY <2>2 DEF PoisonInv, Held
  <2>3. ASSUME NEW t \in Caller, NEW observed \in Time, Evaluate(t, observed) PROVE Frozen(i)
    <3> DEFINE at == ClampedNow(t, observed)
    <3>1. shards' = Refreshed(t, at) /\ IsCheck(op[t])
      BY <2>3 DEF Evaluate
    <3>2. at \in Nat /\ \A h \in Held(t) : shards[h].latest <= at
      BY ClampedNowLemma
    <3> HIDE DEF at
    <3>3. /\ shards'[i].latest = IF i \in Held(t) THEN at ELSE shards[i].latest
          /\ i \notin Held(t) => shards'[i] = shards[i]
      BY <3>1, <3>2, RefreshedLemma
    <3>4. CASE i \in Held(t)
      BY <2>0, <2>2, <3>1, <3>2, <3>3, <3>4 DEF IsCheck
    <3>5. CASE i \notin Held(t)
      BY <2>1, <3>3, <3>5
    <3> QED BY <3>4, <3>5
  <2>4. ASSUME NEW t \in Caller, ConsumeNext(t) PROVE Frozen(i)
    <3>1. PICK j \in todo[t] :
            /\ pc[t] = "writing" /\ IsCheck(op[t])
            /\ shards' = [shards EXCEPT ![ShardIndex(op[t].checks[j].key)] =
                             Consume(@, op[t].checks[j], now[t])]
      BY <2>4 DEF ConsumeNext
    <3> DEFINE c == op[t].checks[j]
    <3>2. op[t] \in Operation \cup {Idle} /\ j \in DOMAIN op[t].checks /\ now[t] \in Nat
      BY <3>1 DEF LockInv, Typed
    <3>3. c \in [key : Key, cost : Nat, mode : QuotaMode]
      BY <3>2, OperationLemma
    <3>4. ShardIndex(c.key) \in Held(t)
      BY <3>1, <3>2 DEF LockInv, ShardsToLock, IsCheck, TouchedShards
    <3>5. CASE i # ShardIndex(c.key)
      BY <2>1, <3>1, <3>5 DEF Typed
    <3>6. CASE i = ShardIndex(c.key)
      <4>1. i \notin poisoned
        BY <2>2, <3>1, <3>4, <3>6 DEF IsCheck
      <4>2. shards'[i] = Consume(shards[i], c, now[t])
        BY <3>1, <3>6 DEF Typed
      <4>3. IndexAgrees(shards[i])
        BY DEF IndexesAgree
      <4> HIDE DEF c
      <4>4. shards'[i].latest = shards[i].latest
        BY <2>0, <3>2, <3>3, <4>2, <4>3, ConsumeLemma
      <4> QED BY <2>0, <4>1, <4>4
    <3> QED BY <3>5, <3>6
  <2>5. ASSUME NEW t \in Caller, ClearNext(t) PROVE Frozen(i)
    <3>1. PICK h \in todo[t] : /\ pc[t] = "writing" /\ op[t].kind = "clear"
                                /\ shards' = [shards EXCEPT ![h] = ClearShard(@)]
      BY <2>5 DEF ClearNext
    <3>2. CASE i # h
      BY <2>1, <3>1, <3>2 DEF Typed
    <3>3. CASE i = h
      <4>1. i \in Held(t)
        BY <3>1, <3>3 DEF LockInv, ShardsToLock
      <4>2. shards'[i].latest = shards[i].latest
        BY <2>0, <3>1, <3>3, ClearShardLemma DEF Typed
      <4> QED BY <2>0, <2>2, <3>1, <4>1, <4>2
    <3> QED BY <3>2, <3>3
  <2>6. ASSUME NEW t \in Caller, RebuildNext(t) PROVE Frozen(i)
    <3>1. PICK h \in todo[t] : /\ pc[t] = "writing" /\ op[t].kind = "recover"
                                /\ shards' = [shards EXCEPT ![h] = EmptyShard]
                                /\ poisoned' = poisoned \ {h}
      BY <2>6 DEF RebuildNext
    <3>2. CASE i # h
      BY <2>1, <3>1, <3>2 DEF Typed
    <3>3. CASE i = h
      <4>1. i \in poisoned
        BY <3>1, <3>3 DEF RebuildInv
      <4> QED BY <3>1, <3>3, <4>1 DEF Typed
    <3> QED BY <3>2, <3>3
  <2>7. CASE UNCHANGED shards
    BY <2>1, <2>7
  <2> QED BY <2>3, <2>4, <2>5, <2>6, <2>7
          DEF Next, Work, RejectBatch, Begin, Acquire, FailPoisoned, ClockPanic, Stats, StartSweep,
              Release, Unwind, Finished, vars
<1>2. Spec => [][\A i \in ShardIndexes : Frozen(i)]_vars
  <2> HIDE DEF Frozen
  <2> QED BY <1>1, Invariance, PTL DEF Spec
<1> QED BY <1>2 DEF PoisonFailsClosed

----------------------------------------------------------------------------
(* The pruning pass and storage-capacity denials                           *)

\* The stored counters and the index are in step: each expiration belongs to the
\* key it names, at that key's expiry.
LEMMA IndexedPairs ==
  ASSUME NEW shard \in ShardType, IndexAgrees(shard)
  PROVE  /\ \A e \in shard.expirations :
              /\ e[2] \in Stored(shard)
              /\ e[1] = shard.entries[e[2]].expires
              /\ e = <<e[1], e[2]>>
              /\ e[1] \in Nat /\ e[2] \in Nat /\ e[2] \in Key
         /\ \A k \in Stored(shard) : <<shard.entries[k].expires, k>> \in shard.expirations
<1>1. shard.expirations = {<<shard.entries[k].expires, k>> : k \in Stored(shard)}
  BY DEF IndexAgrees
<1>2. ASSUME NEW e \in shard.expirations
      PROVE  /\ e[2] \in Stored(shard)
             /\ e[1] = shard.entries[e[2]].expires
             /\ e = <<e[1], e[2]>>
             /\ e[1] \in Nat /\ e[2] \in Nat /\ e[2] \in Key
  <2>1. PICK k \in Stored(shard) : e = <<shard.entries[k].expires, k>>
    BY <1>1
  <2>2. k \in Key /\ k \in Nat /\ shard.entries[k].expires \in Nat
    BY ShardsAssumption DEF Stored, ShardType
  <2> QED BY <2>1, <2>2
<1> QED BY <1>1, <1>2

\* The expirations that are due form a finite set, one for each of their keys.
LEMMA DueFinite ==
  ASSUME NEW shard \in ShardType, IndexAgrees(shard)
  PROVE  /\ IsFiniteSet(shard.expirations)
         /\ \A G \in SUBSET shard.expirations :
              /\ IsFiniteSet(G)
              /\ IsFiniteSet({e[2] : e \in G})
              /\ Cardinality({e[2] : e \in G}) = Cardinality(G)
<1> DEFINE f == [k \in Stored(shard) |-> <<shard.entries[k].expires, k>>]
<1>1. IsFiniteSet(shard.expirations)
  <2>1. IsFiniteSet(Stored(shard))
    BY StoredFinite
  <2>2. f \in [Stored(shard) -> Nat \X Key]
    BY DEF Stored, ShardType
  <2>3. shard.expirations = {f[k] : k \in Stored(shard)}
    BY DEF IndexAgrees
  <2> HIDE DEF f
  <2>4. IsFiniteSet({f[k] : k \in Stored(shard)})
    BY <2>1, <2>2, ImageBound, Zenon
  <2> QED BY <2>3, <2>4
<1>2. ASSUME NEW G \in SUBSET shard.expirations
      PROVE  /\ IsFiniteSet(G)
             /\ IsFiniteSet({e[2] : e \in G})
             /\ Cardinality({e[2] : e \in G}) = Cardinality(G)
  <2> DEFINE g == [e \in G |-> e[2]]
             K == {e[2] : e \in G}
  <2>1. IsFiniteSet(G)
    BY <1>1, FS_Subset
  <2>2. \A e1, e2 \in G : e1[2] = e2[2] => e1 = e2
    BY IndexedPairs
  <2>3. g \in Bijection(G, K)
    <3>1. g \in [G -> K] /\ \A e \in G : g[e] = e[2]
      OBVIOUS
    <3>2. \A e1, e2 \in G : g[e1] = g[e2] => e1 = e2
      BY <2>2, <3>1
    <3>3. \A h \in K : \E e \in G : g[e] = h
      BY <3>1
    <3> HIDE DEF g, K
    <3> QED BY <3>1, <3>2, <3>3 DEF Bijection, Injection, Surjection, IsInjective
  <2>4. IsFiniteSet(K) /\ Cardinality(G) = Cardinality(K)
    <3> HIDE DEF g, K
    <3> QED BY <2>1, <2>3, FS_Bijection DEF ExistsBijection
  <2> QED BY <2>1, <2>4
<1> QED BY <1>1, <1>2

\* A nonempty set of expirations has a first element in the order of the index.
LEMMA FirstExpiration ==
  ASSUME NEW shard \in ShardType, IndexAgrees(shard),
         NEW G \in SUBSET shard.expirations, G # {}
  PROVE  \E e \in G : \A f \in G : ~Precedes(f, e)
<1> DEFINE times == {e[1] : e \in G}
<1>1. times \in SUBSET Nat /\ times # {}
  BY IndexedPairs
<1>2. PICK m \in times : \A n \in times : m <= n
  <2> HIDE DEF times
  <2> QED BY <1>1, MinOfNaturals
<1> DEFINE H == {e \in G : e[1] = m}
           keys == {e[2] : e \in H}
<1>3. keys \in SUBSET Nat /\ keys # {}
  BY <1>2, IndexedPairs
<1>4. PICK k \in keys : \A n \in keys : k <= n
  <2> HIDE DEF keys
  <2> QED BY <1>3, MinOfNaturals
<1>5. PICK e \in H : e[2] = k
  BY <1>4
<1>6. ASSUME NEW f \in G PROVE ~Precedes(f, e)
  <2>1. f[1] \in Nat /\ f[2] \in Nat /\ m \in Nat /\ k \in Nat /\ e[1] = m /\ e[2] = k
    BY <1>1, <1>3, <1>2, <1>4, <1>5, IndexedPairs
  <2>2. m <= f[1]
    BY <1>2
  <2>3. f[1] = m => k <= f[2]
    BY <1>4
  <2> QED BY <2>1, <2>2, <2>3 DEF Precedes
<1> QED BY <1>5, <1>6

\* The bounded pruning pass stops early only after it has removed as many counters
\* as it was allowed to: if an expired counter survives, the allowance was used up.
LEMMA PruneExhausts ==
  ASSUME NEW shard \in ShardType, NEW at \in Nat, NEW limit \in Nat, IndexAgrees(shard),
         NEW k \in Stored(PruneExpired(shard, at, limit)),
         PruneExpired(shard, at, limit).entries[k].expires <= at
  PROVE  Used(PruneExpired(shard, at, limit)) + limit <= Used(shard)
<1> DEFINE gone == PrunedExpirations(shard, at, limit)
           due == {e \in shard.expirations : e[1] <= at}
           left == [h \in Key |-> IF \E e \in gone : e[2] = h THEN Absent ELSE shard.entries[h]]
           P == [latest |-> shard.latest, entries |-> left, expirations |-> shard.expirations \ gone]
           Before(e) == {f \in due : Precedes(f, e)}
           K == {e[2] : e \in gone}
<1>1. PruneExpired(shard, at, limit) = P
  BY DEF PruneExpired, WithContents
<1>2. gone = {e \in due : Cardinality(Before(e)) < limit}
  BY DEF PrunedExpirations
<1>3. gone \in SUBSET shard.expirations /\ due \in SUBSET shard.expirations
  BY <1>2
<1> HIDE DEF gone
<1>4. Stored(P) = Stored(shard) \ K
  BY DEF Stored
<1>5. k \in Stored(shard) /\ k \notin K /\ P.entries[k] = shard.entries[k]
  <2>1. k \in Stored(P)
    BY <1>1
  <2>2. k \in Key
    BY <2>1 DEF Stored
  <2> QED BY <2>1, <2>2, <1>4
<1> DEFINE mine == <<shard.entries[k].expires, k>>
           kept == due \ gone
<1>6. mine \in kept
  <2>1. mine \in shard.expirations
    BY <1>5, IndexedPairs
  <2>2. mine[1] <= at
    BY <1>1, <1>5
  <2>3. mine \notin gone
    BY <1>5
  <2> QED BY <2>1, <2>2, <2>3
<1>7. PICK e \in kept : \A f \in kept : ~Precedes(f, e)
  <2>1. kept \in SUBSET shard.expirations /\ kept # {}
    BY <1>3, <1>6
  <2> HIDE DEF kept
  <2> QED BY <2>1, FirstExpiration
<1>8. Before(e) \subseteq gone
  BY <1>7
<1>9. IsFiniteSet(Before(e)) /\ IsFiniteSet(gone)
  <2>1. Before(e) \in SUBSET shard.expirations
    BY <1>3
  <2> QED BY <1>3, <2>1, DueFinite
<1>10. Cardinality(Before(e)) \in Nat /\ Cardinality(gone) \in Nat
       /\ Cardinality(Before(e)) <= Cardinality(gone)
  <2> HIDE DEF Before
  <2> QED BY <1>8, <1>9, FS_CardinalityType, FS_Subset
<1>11. limit <= Cardinality(Before(e))
  <2>1. e \in due /\ ~(Cardinality(Before(e)) < limit)
    BY <1>2, <1>7
  <2> HIDE DEF Before
  <2> QED BY <1>10, <2>1
<1>12. IsFiniteSet(K) /\ Cardinality(K) = Cardinality(gone)
  BY <1>3, DueFinite
<1>13. K \subseteq Stored(shard)
  BY <1>3, IndexedPairs
<1>14. Cardinality(Stored(shard) \ K) = Cardinality(Stored(shard)) - Cardinality(K)
  <2>1. Stored(shard) \cap K = K
    BY <1>13
  <2>2. IsFiniteSet(Stored(shard))
    BY StoredFinite
  <2> HIDE DEF K
  <2> QED BY <2>1, <2>2, FS_Difference
<1>15. Used(P) = Used(shard) - Cardinality(gone)
  BY <1>4, <1>12, <1>14 DEF Used
<1>16. Used(shard) \in Nat
  BY StoredFinite
<1> HIDE DEF P, Before
<1> QED BY <1>1, <1>10, <1>11, <1>15, <1>16

\* A caller deciding an operation that has passed validation: each shard it touches
\* has room for all of its checks in that shard, were it empty, and of those checks
\* fewer than all come before any one of them.
LEMMA BatchFits ==
  ASSUME NEW o \in Operation, IsCheck(o), ~Rejected(o), NEW s, NEW j \in DOMAIN o.checks
  PROVE  LET i == ShardIndex(o.checks[j].key)
         IN  /\ CheckCount(o.checks, i) \in Nat
             /\ CheckCount(o.checks, i) <= ShardCapacity(i)
             /\ PendingInsertions(s, o.checks, j) \in Nat
             /\ PendingInsertions(s, o.checks, j) < CheckCount(o.checks, i)
<1> DEFINE checks == o.checks
           i == ShardIndex(checks[j].key)
           C == {h \in DOMAIN checks : ShardIndex(checks[h].key) = i}
           L == {h \in 1..(j - 1) : Missing(s, checks[h]) /\ ShardIndex(checks[h].key) = i}
<1>1. DOMAIN checks = 1..Len(checks) /\ Len(checks) \in Nat /\ checks[j].key \in Key
  BY OperationLemma
<1>2. i \in ShardIndexes /\ i \in Nat /\ ShardCapacity(i) \in Nat
  <2>1. i \in ShardIndexes
    BY <1>1, ShardIndexInRange
  <2>2. ShardIndexes \subseteq Nat
    BY ShardsAssumption DEF ShardIndexes
  <2> HIDE DEF i
  <2> QED BY <2>1, <2>2, ShardCapacityType
<1>3. IsFiniteSet(C) /\ Cardinality(C) \in Nat /\ j \in C
  <2>1. IsFiniteSet(DOMAIN checks)
    BY <1>1, FS_Interval
  <2>2. IsFiniteSet(C)
    BY <2>1, FS_Subset
  <2> QED BY <2>2, FS_CardinalityType
<1>4. L \subseteq C \ {j}
  BY <1>1
<1>5. IsFiniteSet(C \ {j}) /\ Cardinality(C \ {j}) = Cardinality(C) - 1
  <2> HIDE DEF C
  <2> QED BY <1>3, FS_RemoveElement
<1>6. Cardinality(L) \in Nat /\ Cardinality(L) <= Cardinality(C) - 1
  <2>1. IsFiniteSet(L) /\ Cardinality(L) <= Cardinality(C \ {j})
    BY <1>4, <1>5, FS_Subset
  <2>2. Cardinality(L) \in Nat
    BY <2>1, FS_CardinalityType
  <2> HIDE DEF C, L
  <2> QED BY <1>5, <2>1, <2>2
<1>7. Cardinality(C) <= ShardCapacity(i)
  <2>1. CASE o.kind = "check"
    <3>1. C \subseteq {1}
      <4>1. Len(checks) = 1
        BY <2>1, MemoryStoreAssumption
      <4> QED BY <1>1, <4>1
    <3>2. Cardinality(C) <= Cardinality({1}) /\ Cardinality({1}) = 1
      <4>1. IsFiniteSet({1}) /\ Cardinality({1}) = 1
        BY FS_Singleton
      <4> HIDE DEF C
      <4> QED BY <3>1, <4>1, FS_Subset
    <3>3. MaxKeys \div ShardCount >= 1
      <4>1. MaxKeys \in Nat /\ ShardCount \in Nat \ {0} /\ ShardCount <= MaxKeys
        BY ShardsAssumption
      <4> QED BY <4>1
    <3>4. ShardCapacity(i) >= 1
      <4>1. MaxKeys \in Nat /\ ShardCount \in Nat \ {0} /\ MaxKeys \div ShardCount \in Nat
        BY ShardsAssumption
      <4> QED BY <3>3, <4>1 DEF ShardCapacity
    <3> HIDE DEF C
    <3> QED BY <1>2, <1>3, <3>2, <3>4
  <2>2. CASE o.kind = "check_all"
    <3>1. FitsShards(checks)
      BY <2>2 DEF Rejected
    <3>2. i \in TouchedShards(checks)
      BY DEF TouchedShards
    <3> QED BY <3>1, <3>2 DEF FitsShards, CheckCount
  <2> QED BY <2>1, <2>2 DEF IsCheck
<1>8. CheckCount(checks, i) = Cardinality(C)
  BY DEF CheckCount
<1>9. PendingInsertions(s, checks, j) = Cardinality(L)
  BY DEF PendingInsertions
<1> HIDE DEF C, L
<1> QED BY <1>3, <1>6, <1>7, <1>8, <1>9

\* The heart of an honest refusal: when a check finds no room after the pruning
\* pass, every counter left in the shard is live, because an expired survivor would
\* mean that pruning freed at least one place for each check of the operation.
LEMMA NoRoomMeansLive ==
  ASSUME Inv, NEW t \in Caller, NEW at \in Nat, IsCheck(op[t]), op[t] \in Operation,
         ~Rejected(op[t]), Held(t) = ShardsToLock(op[t]),
         NEW j \in DOMAIN op[t].checks, CapacityDenied(Refreshed(t, at), op[t].checks, j)
  PROVE  LET s == Refreshed(t, at)[ShardIndex(op[t].checks[j].key)]
         IN  /\ Stored(s) # {}
             /\ \A k \in Stored(s) : s.entries[k].expires > at
<1> USE DEF Inv
<1> DEFINE checks == op[t].checks
           i == ShardIndex(checks[j].key)
           r == RecordObserved(shards[i], at)
           n == CheckCount(checks, i)
           l == RemovalLimit(checks, i)
           p == PendingInsertions(Refreshed(t, at), checks, j)
           s == Refreshed(t, at)[i]
<1>1. i \in Held(t) /\ i \in ShardIndexes
  BY DEF ShardsToLock, IsCheck, TouchedShards, Held
<1>2. s = PruneExpired(r, at, l)
  BY <1>1 DEF Refreshed
<1>3. shards[i] \in ShardType /\ IndexAgrees(shards[i]) /\ Used(shards[i]) <= ShardCapacity(i)
  BY <1>1 DEF Typed, IndexesAgree, HardBound
<1>4. r \in ShardType /\ IndexAgrees(r) /\ Used(r) = Used(shards[i])
  BY <1>3, RecordObservedLemma DEF Used
<1>5. n \in Nat /\ n <= ShardCapacity(i) /\ p \in Nat /\ p < n
  BY BatchFits
<1>6. l \in Nat /\ n <= l
  <2> HIDE DEF n
  <2>1. l = MaxRemovals * n
    BY DEF RemovalLimit, n
  <2>2. MaxRemovals \in Nat /\ 1 <= MaxRemovals
    BY MemoryStoreAssumption
  <2>3. 1 * n <= MaxRemovals * n /\ MaxRemovals * n \in Nat
    BY <1>5, <2>2, TimesMonotone
  <2> QED BY <1>5, <2>1, <2>3
<1>7. Used(s) + p >= ShardCapacity(i)
  BY DEF CapacityDenied
<1>8. Used(s) \in Nat /\ Used(r) \in Nat /\ ShardCapacity(i) \in Nat
  BY <1>1, StoredFinite, ShardCapacityType
<1> HIDE DEF r, n, l, p, s, i
<1>9. Stored(s) # {}
  <2> SUFFICES ASSUME Stored(s) = {} PROVE FALSE
    OBVIOUS
  <2>1. Used(s) = 0
    BY FS_EmptySet DEF Used
  <2> QED BY <1>5, <1>7, <1>8, <2>1
<1>10. s \in ShardType
  BY <1>2, <1>4, PruneLemma
<1>11. ASSUME NEW k \in Stored(s) PROVE s.entries[k].expires > at
  <2>1. s.entries[k].expires \in Nat
    BY <1>10 DEF Stored, ShardType
  <2> SUFFICES ASSUME s.entries[k].expires <= at PROVE FALSE
    BY <2>1
  <2>2. Used(s) + l <= Used(r)
    BY <1>2, <1>4, <1>6, PruneExhausts
  <2> QED BY <1>3, <1>4, <1>5, <1>6, <1>7, <1>8, <2>2
<1> QED BY <1>9, <1>11 DEF s, i

\* On a shard of live counters the advertised delay is the time to the first expiry.
LEMMA RetryIsFirstExpiry ==
  ASSUME NEW shard \in ShardType, NEW at \in Nat, IndexAgrees(shard), Stored(shard) # {},
         \A k \in Stored(shard) : shard.entries[k].expires > at
  PROVE  CapacityRetryAfter(shard, at) =
           Min({shard.entries[k].expires : k \in Stored(shard)}) - at
<1> DEFINE E == {e[1] : e \in shard.expirations}
           F == {shard.entries[k].expires : k \in Stored(shard)}
<1>1. shard.expirations = {<<shard.entries[k].expires, k>> : k \in Stored(shard)}
  BY DEF IndexAgrees
<1>2. E = F
  <2>1. ASSUME NEW x \in E PROVE x \in F
    <3>1. PICK e \in shard.expirations : x = e[1]
      OBVIOUS
    <3> QED BY <3>1, IndexedPairs
  <2>2. ASSUME NEW x \in F PROVE x \in E
    <3>1. PICK k \in Stored(shard) : x = shard.entries[k].expires
      OBVIOUS
    <3>2. <<x, k>> \in shard.expirations /\ <<x, k>>[1] = x
      BY <3>1, IndexedPairs
    <3> QED BY <3>2
  <2> HIDE DEF E, F
  <2> QED BY <2>1, <2>2
<1>3. shard.expirations # {}
  BY <1>1
<1>4. F \in SUBSET Nat /\ F # {} /\ \A x \in F : x > at
  BY DEF Stored, ShardType
<1>5. CapacityRetryAfter(shard, at) = IF Min(E) > at THEN Min(E) - at ELSE 1
  BY <1>3 DEF CapacityRetryAfter
<1> HIDE DEF E, F
<1>6. Min(F) \in F
  BY <1>4, MinOfNaturals
<1>7. Min(F) > at
  BY <1>4, <1>6
<1> QED BY <1>2, <1>5, <1>7 DEF F

\* A step of one caller leaves another caller's call alone, and with it every shard
\* that caller holds.
LEMMA OthersKeep ==
  ASSUME Inv, NEW t \in Caller, RejectBatch(t) \/ Begin(t) \/ Work(t), NEW u \in Caller \ {t}
  PROVE  /\ op'[u] = op[u] /\ pc'[u] = pc[u] /\ reply'[u] = reply[u]
         /\ now'[u] = now[u] /\ todo'[u] = todo[u]
         /\ \A i \in ShardIndexes : owner'[i] = u => owner[i] = u /\ shards'[i] = shards[i]
<1> USE DEF Inv
<1>0. u \in Caller /\ t # u /\ u # NoCaller
  BY MemoryStoreAssumption
<1>1. CASE RejectBatch(t) \/ Begin(t)
  BY <1>0, <1>1 DEF RejectBatch, Begin, Submit, Typed
<1>2. CASE \E i \in ShardIndexes : Acquire(t, i)
  BY <1>0, <1>2 DEF Acquire, Typed
<1>3. CASE (\E i \in ShardIndexes : FailPoisoned(t, i)) \/ ClockPanic(t) \/ Stats(t) \/ StartSweep(t)
  BY <1>0, <1>3 DEF FailPoisoned, ClockPanic, Stats, StartSweep, Typed
<1>4. CASE \E observed \in Time : Evaluate(t, observed)
  <2>1. PICK observed \in Time : Evaluate(t, observed)
    BY <1>4
  <2> DEFINE at == ClampedNow(t, observed)
             fresh == Refreshed(t, at)
             decision == Decision(fresh, op[t].checks, at)
  <2>2. /\ shards' = fresh
        /\ now' = [now EXCEPT ![t] = at]
        /\ reply' = [reply EXCEPT ![t] = decision]
        /\ todo' = todo \/ todo' = [todo EXCEPT ![t] = DOMAIN op[t].checks]
        /\ pc' = [pc EXCEPT ![t] = "writing"] \/ pc' = [pc EXCEPT ![t] = "releasing"]
        /\ UNCHANGED <<owner, op>>
    BY <2>1 DEF Evaluate
  <2>3. \A i \in ShardIndexes : owner[i] = u => fresh[i] = shards[i]
    BY <1>0 DEF Refreshed, Held
  <2> HIDE DEF at, fresh, decision
  <2> QED BY <1>0, <2>2, <2>3 DEF Typed
<1>5. CASE ConsumeNext(t)
  <2>1. PICK j \in todo[t] :
          /\ pc[t] = "writing" /\ IsCheck(op[t])
          /\ shards' = [shards EXCEPT ![ShardIndex(op[t].checks[j].key)] =
                           Consume(@, op[t].checks[j], now[t])]
          /\ AfterWrite(t, j)
          /\ UNCHANGED <<owner, op, now, reply>>
    BY <1>5 DEF ConsumeNext
  <2>2. j \in DOMAIN op[t].checks /\ Held(t) = ShardsToLock(op[t])
    BY <2>1 DEF LockInv
  <2>3. owner[ShardIndex(op[t].checks[j].key)] = t
    BY <2>1, <2>2 DEF ShardsToLock, IsCheck, TouchedShards, Held
  <2>4. \A i \in ShardIndexes : i # ShardIndex(op[t].checks[j].key) => shards'[i] = shards[i]
    BY <2>1 DEF Typed
  <2> QED BY <1>0, <2>1, <2>3, <2>4 DEF Typed, AfterWrite
<1>6. CASE ClearNext(t) \/ RebuildNext(t)
  <2>1. PICK h \in todo[t] :
          /\ pc[t] = "writing" /\ op[t].kind \in {"clear", "recover"}
          /\ shards' = [shards EXCEPT ![h] = ClearShard(@)] \/ shards' = [shards EXCEPT ![h] = EmptyShard]
          /\ AfterWrite(t, h)
          /\ UNCHANGED <<owner, op, now, reply>>
    BY <1>6 DEF ClearNext, RebuildNext
  <2>2. Held(t) = ShardIndexes
    BY <2>1 DEF LockInv, ShardsToLock
  <2> QED BY <1>0, <2>1, <2>2 DEF Typed, AfterWrite, Held
<1>7. CASE Release(t) \/ Unwind(t)
  <2>1. PICK i \in Held(t) : Unlock(t, i) /\ UNCHANGED <<shards, op, todo, now, reply>>
    BY <1>7 DEF Release, Unwind
  <2> QED BY <1>0, <2>1 DEF Unlock, Typed, Held
<1> QED BY <1>1, <1>2, <1>3, <1>4, <1>5, <1>6, <1>7 DEF Work

\* A step of one caller, seen by that caller: either it decides a check, or it leaves
\* a refusal for want of room, the shards behind it and the time it was given alone.
LEMMA OwnStep ==
  ASSUME Inv, CallInv, NEW t \in Caller, RejectBatch(t) \/ Begin(t) \/ Work(t),
         \A observed \in Time : ~Evaluate(t, observed),
         pc'[t] = "releasing", reply'[t].outcome = "capacity_denied"
  PROVE  /\ pc[t] = "releasing"
         /\ UNCHANGED <<shards, op, now, reply>>
         /\ \A i \in ShardIndexes : owner'[i] = t => owner[i] = t
<1> USE DEF Inv
<1>1. ~RejectBatch(t) /\ ~Begin(t)
  BY DEF RejectBatch, Begin, Submit, Typed
<1>2. \A i \in ShardIndexes : ~Acquire(t, i) /\ ~FailPoisoned(t, i)
  BY DEF Acquire, FailPoisoned, Typed, Reply
<1>3. ~ClockPanic(t) /\ ~Stats(t) /\ ~StartSweep(t)
  BY DEF ClockPanic, Stats, StartSweep, Typed, Reply
<1>4. ~ConsumeNext(t) /\ ~ClearNext(t) /\ ~RebuildNext(t)
  BY DEF ConsumeNext, ClearNext, RebuildNext, CallInv
<1>5. ~Unwind(t)
  BY DEF Unwind, Unlock, Typed
<1>6. Release(t)
  BY <1>1, <1>2, <1>3, <1>4, <1>5 DEF Work
<1> QED BY <1>6, MemoryStoreAssumption DEF Release, Unlock, Typed

\* Every operation inside the store has been validated, in every step.
LEMMA CallStep ==
  ASSUME Inv, CallInv, NEW t \in Caller, RejectBatch(t) \/ Begin(t) \/ Work(t)
  PROVE  CallInv'
<1> USE DEF Inv
<1> SUFFICES ASSUME NEW u \in Caller
             PROVE  /\ pc'[u] # "idle" => op'[u] \in Operation /\ ~Rejected(op'[u])
                    /\ pc'[u] = "writing" => reply'[u].outcome # "capacity_denied"
                    /\ pc'[u] = "releasing" /\ reply'[u].outcome = "capacity_denied" =>
                         reply'[u].index \in DOMAIN op'[u].checks
  BY DEF CallInv, Rejected
<1>1. CASE u # t
  <2>1. op'[u] = op[u] /\ pc'[u] = pc[u] /\ reply'[u] = reply[u]
    BY <1>1, OthersKeep
  <2> QED BY <2>1 DEF CallInv
<1>2. CASE u = t
  <2>1. pc'[t] # "idle" => op'[t] \in Operation /\ ~Rejected(op'[t])
    <3>1. CASE RejectBatch(t)
      BY <3>1 DEF RejectBatch, Submit
    <3>2. CASE Begin(t)
      BY <3>2 DEF Begin, Submit, Typed
    <3>3. CASE Work(t)
      <4>1. op' = op /\ pc[t] # "idle"
        BY <3>3 DEF Work, Acquire, FailPoisoned, Evaluate, ConsumeNext, ClockPanic, Stats,
                    StartSweep, ClearNext, RebuildNext, Release, Unwind
      <4> QED BY <4>1 DEF CallInv
    <3> QED BY <3>1, <3>2, <3>3
  <2>2. CASE \E observed \in Time : Evaluate(t, observed)
    <3>1. PICK observed \in Time : Evaluate(t, observed)
      BY <2>2
    <3> DEFINE at == ClampedNow(t, observed)
               fresh == Refreshed(t, at)
               decision == Decision(fresh, op[t].checks, at)
    <3>2. /\ reply' = [reply EXCEPT ![t] = decision]
          /\ decision.outcome = "allowed" \/ pc' = [pc EXCEPT ![t] = "releasing"]
          /\ op' = op
      BY <3>1 DEF Evaluate
    <3>3. at \in Nat /\ fresh \in [ShardIndexes -> ShardType] /\ op[t] \in Operation \cup {Idle}
      BY ClampedNowLemma, RefreshedLemma DEF Typed
    <3>4. decision.outcome = "capacity_denied" => decision.index \in DOMAIN op[t].checks
      <4> HIDE DEF at, fresh
      <4>1. decision.outcome = "capacity_denied" =>
              \E j \in DOMAIN op[t].checks :
                 /\ decision.index = j
                 /\ CapacityDenied(fresh, op[t].checks, j)
                 /\ decision.retry = CapacityRetryAfter(fresh[ShardIndex(op[t].checks[j].key)], at)
        BY <3>3, DecisionLemma
      <4> HIDE DEF decision
      <4> QED BY <4>1
    <3> HIDE DEF decision
    <3> QED BY <1>2, <2>1, <3>2, <3>4 DEF Typed
  <2>3. CASE \A observed \in Time : ~Evaluate(t, observed)
    <3>1. pc'[t] = "releasing" /\ reply'[t].outcome = "capacity_denied" =>
            reply'[t].index \in DOMAIN op'[t].checks
      BY <2>3, OwnStep DEF CallInv
    <3>2. pc'[t] = "writing" => reply'[t].outcome # "capacity_denied"
      <4> SUFFICES ASSUME pc'[t] = "writing", reply'[t].outcome = "capacity_denied" PROVE FALSE
        OBVIOUS
      <4>1. ~RejectBatch(t) /\ ~Begin(t)
        BY DEF RejectBatch, Begin, Submit, Typed, Pending
      <4>2. \A i \in ShardIndexes : ~Acquire(t, i) /\ ~FailPoisoned(t, i)
        BY DEF Acquire, FailPoisoned, Typed
      <4>3. ~ClockPanic(t) /\ ~Stats(t) /\ ~StartSweep(t)
        BY DEF ClockPanic, Stats, StartSweep, Typed, Reply
      <4>4. ~ConsumeNext(t) /\ ~ClearNext(t) /\ ~RebuildNext(t)
        BY DEF ConsumeNext, ClearNext, RebuildNext, CallInv
      <4>5. ~Unwind(t) /\ ~Release(t)
        BY DEF Unwind, Release, Unlock, Typed
      <4> QED BY <2>3, <4>1, <4>2, <4>3, <4>4, <4>5 DEF Work
    <3> QED BY <1>2, <2>1, <3>1, <3>2
  <2> QED BY <2>2, <2>3
<1> QED BY <1>1, <1>2

\* Refusals for want of room stay true until the refusing caller lets the shard go.
LEMMA DenialStep ==
  ASSUME DenialInv, NEW t \in Caller, RejectBatch(t) \/ Begin(t) \/ Work(t), CallInv'
  PROVE  CapacityDenialHonest'
<1> USE DEF DenialInv
<1> DEFINE Honest(s, at, retry) ==
             LET live == {s.entries[k].expires : k \in Stored(s)}
             IN  /\ live # {}
                 /\ \A e \in live : e > at
                 /\ retry = Min(live) - at
           Spot(u) == ShardIndex(op[u].checks[reply[u].index].key)
<1>0. \A u \in Caller : pc[u] = "releasing" /\ reply[u].outcome = "capacity_denied" =>
         (owner[Spot(u)] = u => Honest(shards[Spot(u)], now[u], reply[u].retry))
  BY DEF CapacityDenialHonest
<1> SUFFICES ASSUME NEW u \in Caller, pc'[u] = "releasing", reply'[u].outcome = "capacity_denied",
                    owner'[ShardIndex(op'[u].checks[reply'[u].index].key)] = u
             PROVE  Honest(shards'[ShardIndex(op'[u].checks[reply'[u].index].key)], now'[u],
                           reply'[u].retry)
  BY DEF CapacityDenialHonest
<1> HIDE DEF Honest
<1>1. ASSUME op'[u] = op[u], pc[u] = "releasing", reply'[u] = reply[u], now'[u] = now[u],
             \A i \in ShardIndexes : owner'[i] = u => owner[i] = u /\ shards'[i] = shards[i]
      PROVE  Honest(shards'[ShardIndex(op'[u].checks[reply'[u].index].key)], now'[u], reply'[u].retry)
  <2>1. reply[u].index \in DOMAIN op[u].checks /\ op[u] \in Operation
    BY <1>1 DEF CallInv
  <2>2. Spot(u) \in ShardIndexes
    BY <2>1, OperationLemma, ShardIndexInRange
  <2> QED BY <1>0, <1>1, <2>2
<1>2. CASE u # t
  BY <1>1, <1>2, OthersKeep
<1>3. CASE u = t /\ \A observed \in Time : ~Evaluate(t, observed)
  BY <1>1, <1>3, OwnStep
<1>4. CASE u = t /\ \E observed \in Time : Evaluate(t, observed)
  <2>1. PICK observed \in Time : Evaluate(t, observed)
    BY <1>4
  <2> DEFINE at == ClampedNow(t, observed)
             fresh == Refreshed(t, at)
             decision == Decision(fresh, op[t].checks, at)
  <2>2. /\ pc[t] = "working" /\ IsCheck(op[t])
        /\ shards' = fresh
        /\ now' = [now EXCEPT ![t] = at]
        /\ reply' = [reply EXCEPT ![t] = decision]
        /\ op' = op
    BY <2>1 DEF Evaluate
  <2>3. at \in Nat /\ fresh \in [ShardIndexes -> ShardType]
        /\ \A i \in ShardIndexes : IndexAgrees(fresh[i])
    BY ClampedNowLemma, RefreshedLemma DEF Inv
  <2>4. op[t] \in Operation /\ ~Rejected(op[t]) /\ Held(t) = ShardsToLock(op[t])
    BY <2>2 DEF CallInv, Inv, LockInv
  <2>5. reply'[t] = decision /\ now'[t] = at /\ op'[t] = op[t]
    BY <2>2 DEF Inv, Typed
  <2>6. PICK j \in DOMAIN op[t].checks :
          /\ decision.index = j
          /\ CapacityDenied(fresh, op[t].checks, j)
          /\ decision.retry = CapacityRetryAfter(fresh[ShardIndex(op[t].checks[j].key)], at)
    <3> HIDE DEF at, fresh
    <3> QED BY <1>4, <2>3, <2>4, <2>5, DecisionLemma
  <2> DEFINE s == fresh[ShardIndex(op[t].checks[j].key)]
  <2>7. s \in ShardType /\ IndexAgrees(s)
    BY <2>3, <2>4, OperationLemma, ShardIndexInRange
  <2>8. Stored(s) # {} /\ \A k \in Stored(s) : s.entries[k].expires > at
    <3> HIDE DEF at
    <3> QED BY <2>2, <2>3, <2>4, <2>6, NoRoomMeansLive
  <2> HIDE DEF at, s, decision
  <2>9. decision.retry = Min({s.entries[k].expires : k \in Stored(s)}) - at
    BY <2>3, <2>6, <2>7, <2>8, RetryIsFirstExpiry DEF s
  <2>10. Honest(s, at, decision.retry)
    BY <2>8, <2>9 DEF Honest
  <2> QED BY <1>4, <2>2, <2>5, <2>6, <2>10 DEF s
<1> QED BY <1>2, <1>3, <1>4

\* A storage-capacity denial is never blamed on garbage, for every capacity, batch and
\* pruning allowance: the counters behind it are live, and the delay it advertises is
\* exactly the time until the first of them expires.
THEOREM DenialsAreHonest == Spec => []CapacityDenialHonest
<1>1. Init => CallInv /\ CapacityDenialHonest
  BY DEF Init, CallInv, CapacityDenialHonest
<1>2. Inv /\ Inv' /\ CallInv /\ CapacityDenialHonest /\ [Next]_vars =>
        CallInv' /\ CapacityDenialHonest'
  <2> SUFFICES ASSUME Inv, CallInv, CapacityDenialHonest, [Next]_vars
               PROVE  CallInv' /\ CapacityDenialHonest'
    OBVIOUS
  <2>1. CASE UNCHANGED vars
    <3>1. CallInv'
      BY <2>1 DEF vars, CallInv, Rejected
    <3>2. CapacityDenialHonest'
      <4> DEFINE Honest(s, at, retry) ==
                   LET live == {s.entries[k].expires : k \in Stored(s)}
                   IN  /\ live # {}
                       /\ \A e \in live : e > at
                       /\ retry = Min(live) - at
                 Spot(u) == ShardIndex(op[u].checks[reply[u].index].key)
      <4>1. CapacityDenialHonest <=>
              \A u \in Caller : pc[u] = "releasing" /\ reply[u].outcome = "capacity_denied" =>
                 (owner[Spot(u)] = u => Honest(shards[Spot(u)], now[u], reply[u].retry))
        BY DEF CapacityDenialHonest
      <4>2. CapacityDenialHonest' <=>
              (\A u \in Caller : pc[u] = "releasing" /\ reply[u].outcome = "capacity_denied" =>
                 (owner[Spot(u)] = u => Honest(shards[Spot(u)], now[u], reply[u].retry)))'
        BY DEF CapacityDenialHonest
      <4> HIDE DEF Honest
      <4> QED BY <2>1, <4>1, <4>2 DEF vars
    <3> QED BY <3>1, <3>2
  <2>2. CASE \E t \in Caller : RejectBatch(t) \/ Begin(t) \/ Work(t)
    BY <2>2, CallStep, DenialStep DEF DenialInv
  <2> QED BY <2>1, <2>2 DEF Next, Finished
<1> QED BY <1>1, <1>2, Invariance, PTL DEF Spec

----------------------------------------------------------------------------
(* The refinement of AnchoredWindow                                        *)

\* What a caller sees of a counter in a shard nobody is writing to.
SeenWindow(shard, k) ==
    IF ActiveEntry(shard, k, shard.latest)
    THEN [used |-> shard.entries[k].value, expires |-> shard.entries[k].expires]
    ELSE [used |-> 0, expires |-> 0]

\* What a caller sees of a counter an admitted check has still to be written to.
ChargedWindow(shard, c) ==
    IF ActiveEntry(shard, c.key, shard.latest)
    THEN [used |-> shard.entries[c.key].value + c.cost, expires |-> shard.entries[c.key].expires]
    ELSE [used |-> c.cost, expires |-> shard.latest + Window[c.key]]

\* The admitted checks that have still to be written to a counter.
Charges(k, pcs, ops, todos) ==
    {h \in Caller \X (1..MaxBatchSize) :
        /\ pcs[h[1]] = "writing"
        /\ IsCheck(ops[h[1]])
        /\ h[2] \in todos[h[1]]
        /\ ops[h[1]].checks[h[2]].key = k}

\* AbstractWindow[k] as a function of the shard and of the calls.
WindowOf(k, shard, pcs, ops, todos) ==
    LET charges == Charges(k, pcs, ops, todos)
        seen == IF charges = {} THEN shard
                ELSE LET h == CHOOSE h \in charges : TRUE
                     IN  Consume(shard, ops[h[1]].checks[h[2]], shard.latest)
    IN  IF ActiveEntry(shard, k, shard.latest) \/ charges # {}
        THEN [used |-> seen.entries[k].value, expires |-> seen.entries[k].expires]
        ELSE [used |-> 0, expires |-> 0]

\* The refinement mapping of a counter, before and after a step.
LEMMA AbstractWindowIs ==
  ASSUME NEW k \in Key
  PROVE  /\ AbstractWindow[k] = WindowOf(k, shards[ShardIndex(k)], pc, op, todo)
         /\ AbstractWindow'[k] = WindowOf(k, shards'[ShardIndex(k)], pc', op', todo')
<1>1. AbstractWindow[k] = WindowOf(k, shards[ShardIndex(k)], pc, op, todo)
  BY Zenon DEF AbstractWindow, WindowOf, Charges
<1>2. AbstractWindow'[k] = WindowOf(k, shards'[ShardIndex(k)], pc', op', todo')
  BY Zenon DEF AbstractWindow, WindowOf, Charges
<1> QED BY <1>1, <1>2

\* A counter with no charge outstanding shows what its shard holds.
LEMMA SeenUncharged ==
  ASSUME NEW k \in Key, NEW shard, NEW pcs, NEW ops, NEW todos, Charges(k, pcs, ops, todos) = {}
  PROVE  WindowOf(k, shard, pcs, ops, todos) = SeenWindow(shard, k)
BY DEF WindowOf, SeenWindow

\* The counter a check is written to.
LEMMA ConsumedEntry ==
  ASSUME NEW shard \in ShardType, NEW c \in [key : Key, cost : Nat, mode : QuotaMode]
  PROVE  LET e == Consume(shard, c, shard.latest).entries[c.key]
         IN  [used |-> e.value, expires |-> e.expires] = ChargedWindow(shard, c)
<1> DEFINE k == c.key
<1>0. k \in Key /\ shard.entries \in [Key -> [value : Nat, expires : Nat]]
  BY DEF ShardType
<1>1. CASE ActiveEntry(shard, k, shard.latest)
  <2>1. Consume(shard, c, shard.latest).entries =
          [shard.entries EXCEPT ![k] = [value |-> shard.entries[k].value + c.cost,
                                        expires |-> shard.entries[k].expires]]
    BY <1>1 DEF Consume, UpdateValue, WithContents
  <2>2. Consume(shard, c, shard.latest).entries[k] =
          [value |-> shard.entries[k].value + c.cost, expires |-> shard.entries[k].expires]
    BY <1>0, <2>1
  <2> QED BY <1>1, <2>2 DEF ChargedWindow
<1>2. CASE ~ActiveEntry(shard, k, shard.latest)
  <2>1. Consume(shard, c, shard.latest).entries =
          [shard.entries EXCEPT ![k] = [value |-> c.cost, expires |-> shard.latest + Window[k]]]
    BY <1>2 DEF Consume, Replace, WithContents
  <2>2. Consume(shard, c, shard.latest).entries[k] =
          [value |-> c.cost, expires |-> shard.latest + Window[k]]
    BY <1>0, <2>1
  <2> QED BY <1>2, <2>2 DEF ChargedWindow
<1> QED BY <1>1, <1>2

\* The other counters of the shard a check is written to.
LEMMA ConsumedOthers ==
  ASSUME NEW shard \in ShardType, NEW c \in [key : Key, cost : Nat, mode : QuotaMode],
         NEW at, NEW k \in Key, k # c.key
  PROVE  Consume(shard, c, at).entries[k] = shard.entries[k]
BY DEF Consume, UpdateValue, Replace, WithContents, ShardType

\* The one charge outstanding of k is check j of caller t.
OnlyCharge(k, pcs, ops, todos, t, j) ==
    /\ Charges(k, pcs, ops, todos) = {<<t, j>>}
    /\ ops[t].checks[j] \in [key : Key, cost : Nat, mode : QuotaMode]
    /\ ops[t].checks[j].key = k

\* A counter with one charge outstanding shows that charge as made.
LEMMA SeenCharged ==
  ASSUME NEW k \in Key, NEW shard \in ShardType, NEW pcs, NEW ops, NEW todos, NEW t, NEW j,
         OnlyCharge(k, pcs, ops, todos, t, j)
  PROVE  WindowOf(k, shard, pcs, ops, todos) = ChargedWindow(shard, ops[t].checks[j])
<1> DEFINE charges == Charges(k, pcs, ops, todos)
           h == CHOOSE h \in charges : TRUE
           c == ops[t].checks[j]
<1>0. charges = {<<t, j>>} /\ c \in [key : Key, cost : Nat, mode : QuotaMode] /\ c.key = k
  BY DEF OnlyCharge
<1>1. h = <<t, j>>
  BY <1>0
<1>2. h[1] = t /\ h[2] = j
  <2> HIDE DEF h
  <2> QED BY <1>1
<1> DEFINE e == Consume(shard, c, shard.latest).entries[k]
<1>3. WindowOf(k, shard, pcs, ops, todos) = [used |-> e.value, expires |-> e.expires]
  <2>1. charges # {}
    BY <1>0
  <2> QED BY <1>2, <2>1 DEF WindowOf
<1>4. [used |-> e.value, expires |-> e.expires] = ChargedWindow(shard, c)
  BY <1>0, ConsumedEntry
<1> QED BY <1>3, <1>4

\* What is seen of a counter depends on its own entry and its shard's time only.
LEMMA SeenLocally ==
  ASSUME NEW k \in Key, NEW s1, NEW s2, s1.latest = s2.latest, s1.entries[k] = s2.entries[k]
  PROVE  SeenWindow(s1, k) = SeenWindow(s2, k)
BY DEF SeenWindow, ActiveEntry

\* What validation guarantees of an operation that is let in: at least one check and
\* no more than the maximum, no counter twice, and costs within the limits.
LEMMA ValidOperation ==
  ASSUME NEW o \in Operation, IsCheck(o), ~Rejected(o)
  PROVE  /\ 1 \in DOMAIN o.checks
         /\ DOMAIN o.checks \subseteq 1..MaxBatchSize
         /\ \A i, j \in DOMAIN o.checks : o.checks[i].key = o.checks[j].key => i = j
         /\ \A j \in DOMAIN o.checks :
              /\ o.checks[j] \in [key : Key, cost : Nat, mode : QuotaMode]
              /\ o.checks[j].key \in Key
              /\ o.checks[j].cost \in Nat
              /\ o.checks[j].cost <= Limit[o.checks[j].key]
              /\ Limit[o.checks[j].key] \in Nat /\ Window[o.checks[j].key] \in Nat \ {0}
<1> DEFINE checks == o.checks
<1>1. DOMAIN checks = 1..Len(checks) /\ Len(checks) \in Nat
      /\ \A j \in DOMAIN checks : checks[j] \in [key : Key, cost : Nat, mode : QuotaMode]
  BY OperationLemma
<1>2. \A j \in DOMAIN checks :
        /\ checks[j].key \in Key /\ checks[j].cost \in Nat
        /\ checks[j].cost <= Limit[checks[j].key]
        /\ Limit[checks[j].key] \in Nat /\ Window[checks[j].key] \in Nat \ {0}
  BY <1>1, MemoryStoreAssumption DEF ValidCost
<1>3. MaxBatchSize \in Nat /\ MaxBatchSize >= 1
  BY MemoryStoreAssumption
<1>4. CASE o.kind = "check"
  <2>1. Len(checks) = 1
    BY <1>4, MemoryStoreAssumption
  <2> QED BY <1>1, <1>2, <1>3, <2>1
<1>5. CASE o.kind = "check_all"
  <2> DEFINE bad == {i \in 1..Len(checks) : MixedModeAt(checks, i) \/ DuplicateAt(checks, i)}
  <2>1. ValidateBatch(checks, MaxBatchSize) = "Valid"
    BY <1>5 DEF Rejected
  <2>2. Len(checks) # 0 /\ Len(checks) <= MaxBatchSize
    BY <1>1, <1>3, <2>1 DEF ValidateBatch
  <2>3. bad = {}
    BY <1>1, <1>3, <2>1, <2>2 DEF ValidateBatch
  <2>4. ASSUME NEW i \in DOMAIN checks, NEW j \in DOMAIN checks, checks[i].key = checks[j].key, i < j
        PROVE  FALSE
    <3>1. i \in 1..(j - 1) /\ j \in 1..Len(checks)
      BY <1>1, <2>4
    <3>2. DuplicateAt(checks, j)
      BY <2>4, <3>1 DEF DuplicateAt
    <3> QED BY <2>3, <3>1, <3>2
  <2>5. \A i, j \in DOMAIN checks : checks[i].key = checks[j].key => i = j
    BY <1>1, <2>4
  <2> QED BY <1>1, <1>2, <1>3, <2>2, <2>5
<1> QED BY <1>4, <1>5 DEF IsCheck

\* Who charges a counter holds its shard, and is the only one to charge it.
LEMMA ChargeFacts ==
  ASSUME Inv, CallInv, NEW k \in Key, NEW h \in Charges(k, pc, op, todo)
  PROVE  /\ h[1] \in Caller /\ owner[ShardIndex(k)] = h[1]
         /\ h[2] \in todo[h[1]] /\ pc[h[1]] = "writing" /\ IsCheck(op[h[1]])
         /\ op[h[1]].checks[h[2]].key = k
         /\ h[2] \in DOMAIN op[h[1]].checks
         /\ Charges(k, pc, op, todo) = {h}
<1> USE DEF Inv
<1>1. ASSUME NEW g \in Charges(k, pc, op, todo)
      PROVE  /\ g[1] \in Caller /\ g = <<g[1], g[2]>>
             /\ g[2] \in todo[g[1]] /\ pc[g[1]] = "writing" /\ IsCheck(op[g[1]])
             /\ op[g[1]].checks[g[2]].key = k
             /\ g[2] \in DOMAIN op[g[1]].checks
             /\ owner[ShardIndex(k)] = g[1]
             /\ op[g[1]] \in Operation /\ ~Rejected(op[g[1]])
  <2>1. /\ g[1] \in Caller /\ g = <<g[1], g[2]>>
        /\ g[2] \in todo[g[1]] /\ pc[g[1]] = "writing" /\ IsCheck(op[g[1]])
        /\ op[g[1]].checks[g[2]].key = k
    BY DEF Charges
  <2>2. g[2] \in DOMAIN op[g[1]].checks /\ Held(g[1]) = ShardsToLock(op[g[1]])
    BY <2>1 DEF LockInv
  <2>3. ShardIndex(k) \in Held(g[1])
    BY <2>1, <2>2 DEF ShardsToLock, IsCheck, TouchedShards
  <2> QED BY <2>1, <2>2, <2>3 DEF Held, CallInv
<1>2. ASSUME NEW g \in Charges(k, pc, op, todo) PROVE g = h
  <2>1. g[1] = h[1]
    BY <1>1
  <2>2. g[2] = h[2]
    BY <1>1, <2>1, ValidOperation
  <2> QED BY <1>1, <2>1, <2>2
<1> QED BY <1>1, <1>2

\* No counter of a shard is charged while a caller that is not writing checks holds it.
LEMMA UnchargedShard ==
  ASSUME Inv, CallInv, NEW k \in Key, NEW t \in Caller, owner[ShardIndex(k)] = t,
         pc[t] # "writing" \/ ~IsCheck(op[t])
  PROVE  Charges(k, pc, op, todo) = {}
BY ChargeFacts

\* Told: what a caller has been told, in the terms of AnchoredWindow.
Told(t) == IF Sweeping(t) THEN Pending ELSE reply[t]

\* A step of one caller changes nothing another caller has been told.
LEMMA OthersTold ==
  ASSUME Inv, NEW t \in Caller, RejectBatch(t) \/ Begin(t) \/ Work(t), NEW u \in Caller \ {t}
  PROVE  Told(u)' = Told(u)
<1>1. op'[u] = op[u] /\ pc'[u] = pc[u] /\ reply'[u] = reply[u]
  BY OthersKeep
<1> QED BY <1>1 DEF Told, Sweeping, Pending

\* A counter whose shard and charges stay put is seen unchanged.
LEMMA SeenUnchanged ==
  ASSUME NEW k \in Key, shards'[ShardIndex(k)] = shards[ShardIndex(k)],
         Charges(k, pc', op', todo') = Charges(k, pc, op, todo),
         \A h \in Charges(k, pc, op, todo) : op'[h[1]] = op[h[1]]
  PROVE  AbstractWindow'[k] = AbstractWindow[k]
<1> DEFINE C == Charges(k, pc, op, todo)
           h == CHOOSE h \in C : TRUE
           s == shards[ShardIndex(k)]
<1>1. CASE C = {}
  <2>1. WindowOf(k, s, pc, op, todo) = SeenWindow(s, k) /\ WindowOf(k, s, pc', op', todo') = SeenWindow(s, k)
    BY <1>1, SeenUncharged
  <2> QED BY <2>1, AbstractWindowIs
<1>2. CASE C # {}
  <2>1. h \in C
    BY <1>2
  <2>2. op'[h[1]] = op[h[1]]
    BY <2>1
  <2>3. WindowOf(k, s, pc', op', todo') = WindowOf(k, s, pc, op, todo)
    <3> DEFINE seen == Consume(s, op[h[1]].checks[h[2]], s.latest)
    <3>1. WindowOf(k, s, pc, op, todo) =
            [used |-> seen.entries[k].value, expires |-> seen.entries[k].expires]
      BY <1>2 DEF WindowOf
    <3>2. WindowOf(k, s, pc', op', todo') =
            [used |-> seen.entries[k].value, expires |-> seen.entries[k].expires]
      BY <1>2, <2>2 DEF WindowOf
    <3> QED BY <3>1, <3>2
  <2> QED BY <2>3, AbstractWindowIs
<1> QED BY <1>1, <1>2

\* The charges outstanding do not depend on a caller that is not writing checks.
LEMMA ChargesStay ==
  ASSUME Inv, NEW t \in Caller, RejectBatch(t) \/ Begin(t) \/ Work(t), NEW k \in Key,
         pc[t] # "writing" \/ ~IsCheck(op[t]),
         pc'[t] # "writing" \/ ~IsCheck(op'[t])
  PROVE  /\ Charges(k, pc', op', todo') = Charges(k, pc, op, todo)
         /\ \A h \in Charges(k, pc, op, todo) : op'[h[1]] = op[h[1]]
<1>1. \A u \in Caller \ {t} : op'[u] = op[u] /\ pc'[u] = pc[u] /\ todo'[u] = todo[u]
  BY OthersKeep
<1>2. ASSUME NEW h \in Caller \X (1..MaxBatchSize)
      PROVE  h \in Charges(k, pc', op', todo') <=> h \in Charges(k, pc, op, todo)
  <2>1. h[1] \in Caller
    OBVIOUS
  <2>2. CASE h[1] = t
    BY <2>2 DEF Charges
  <2>3. CASE h[1] # t
    <3>1. op'[h[1]] = op[h[1]] /\ pc'[h[1]] = pc[h[1]] /\ todo'[h[1]] = todo[h[1]]
      BY <1>1, <2>1, <2>3
    <3> QED BY <3>1 DEF Charges
  <2> QED BY <2>2, <2>3
<1>3. Charges(k, pc', op', todo') = Charges(k, pc, op, todo)
  <2>1. /\ Charges(k, pc', op', todo') \subseteq Caller \X (1..MaxBatchSize)
        /\ Charges(k, pc, op, todo) \subseteq Caller \X (1..MaxBatchSize)
    BY DEF Charges
  <2> QED BY <1>2, <2>1
<1>4. \A h \in Charges(k, pc, op, todo) : h[1] \in Caller /\ h[1] # t
  BY DEF Charges
<1> QED BY <1>1, <1>3, <1>4

\* The three kinds of decision.
LEMMA DecisionCases ==
  ASSUME NEW s \in [ShardIndexes -> ShardType], NEW o \in Operation \cup {Idle}, NEW at \in Nat
  PROVE  LET d == Decision(s, o.checks, at)
         IN  \/ /\ d = Reply("allowed", 0, 0)
                /\ \A j \in DOMAIN o.checks :
                     ~QuotaDenied(s, o.checks[j], at) /\ ~CapacityDenied(s, o.checks, j)
             \/ \E j \in DOMAIN o.checks :
                  /\ d = Reply(IF o.checks[j].mode = "Shadow" THEN "shadow_denied" ELSE "quota_denied", j,
                               s[ShardIndex(o.checks[j].key)].entries[o.checks[j].key].expires - at)
                  /\ QuotaDenied(s, o.checks[j], at)
                  /\ \A h \in 1..(j - 1) : ~QuotaDenied(s, o.checks[h], at)
             \/ \E j \in DOMAIN o.checks :
                  /\ d = Reply("capacity_denied", j,
                               CapacityRetryAfter(s[ShardIndex(o.checks[j].key)], at))
                  /\ CapacityDenied(s, o.checks, j)
<1> DEFINE checks == o.checks
           j == FirstDenied(s, checks, at)
           denied == {h \in DOMAIN checks :
                        QuotaDenied(s, checks[h], at) \/ CapacityDenied(s, checks, h)}
           c == checks[j]
           shard == s[ShardIndex(c.key)]
<1>1. DOMAIN checks = 1..Len(checks) /\ Len(checks) \in Nat
  BY OperationLemma
<1>2. CASE denied = {}
  <2>1. j = 0
    BY <1>2 DEF FirstDenied
  <2>2. Decision(s, checks, at) = Reply("allowed", 0, 0)
    BY <2>1 DEF Decision
  <2> QED BY <1>2, <2>2
<1>3. CASE denied # {}
  <2>1. j = Min(denied)
    BY <1>3 DEF FirstDenied
  <2>2. denied \in SUBSET Nat
    BY <1>1
  <2>3. j \in denied /\ \A h \in denied : j <= h
    <3> HIDE DEF denied, j
    <3> QED BY <1>3, <2>1, <2>2, MinOfNaturals
  <2>4. j \in DOMAIN checks /\ j # 0 /\ j \in Nat
    BY <1>1, <2>3
  <2>5. \A h \in 1..(j - 1) : h \in DOMAIN checks /\ h \notin denied
    <3> HIDE DEF j, denied
    <3> QED BY <1>1, <2>2, <2>3, <2>4
  <2>6. \A h \in 1..(j - 1) : ~QuotaDenied(s, checks[h], at)
    BY <2>5
  <2>7. CASE QuotaDenied(s, c, at)
    <3>1. Decision(s, checks, at) =
            Reply(IF c.mode = "Shadow" THEN "shadow_denied" ELSE "quota_denied",
                  j, shard.entries[c.key].expires - at)
      BY <2>4, <2>7 DEF Decision
    <3> HIDE DEF j
    <3> QED BY <2>4, <2>6, <2>7, <3>1
  <2>8. CASE ~QuotaDenied(s, c, at)
    <3>1. Decision(s, checks, at) = Reply("capacity_denied", j, CapacityRetryAfter(shard, at))
      BY <2>4, <2>8 DEF Decision
    <3>2. CapacityDenied(s, checks, j)
      BY <2>3, <2>8
    <3> HIDE DEF j
    <3> QED BY <2>4, <3>1, <3>2
  <2> QED BY <2>7, <2>8
<1> QED BY <1>2, <1>3

\* A decision is an answer.
LEMMA DecisionOutcome ==
  ASSUME NEW s \in [ShardIndexes -> ShardType], NEW o \in Operation \cup {Idle}, NEW at \in Nat
  PROVE  Decision(s, o.checks, at).outcome \in
           {"allowed", "quota_denied", "shadow_denied", "capacity_denied"}
<1> DEFINE d == Decision(s, o.checks, at)
<1>1. \E w \in {"allowed", "quota_denied", "shadow_denied", "capacity_denied"} :
        \E n, r : d = Reply(w, n, r)
  <2> HIDE DEF d
  <2>1. CASE d = Reply("allowed", 0, 0)
    BY <2>1
  <2>2. CASE \E j \in DOMAIN o.checks :
               d = Reply(IF o.checks[j].mode = "Shadow" THEN "shadow_denied" ELSE "quota_denied", j,
                         s[ShardIndex(o.checks[j].key)].entries[o.checks[j].key].expires - at)
    BY <2>2
  <2>3. CASE \E j \in DOMAIN o.checks :
               d = Reply("capacity_denied", j, CapacityRetryAfter(s[ShardIndex(o.checks[j].key)], at))
    BY <2>3
  <2> QED BY <2>1, <2>2, <2>3, DecisionCases DEF d
<1> QED BY <1>1 DEF Reply

\* Callers are told something exactly when their operation has been decided.
LEMMA ReplyStep ==
  ASSUME Inv, CallInv, ReplyInv, NEW t \in Caller, RejectBatch(t) \/ Begin(t) \/ Work(t)
  PROVE  ReplyInv'
<1> USE DEF Inv
<1> SUFFICES ASSUME NEW u \in Caller
             PROVE  /\ pc'[u] = "writing" /\ IsCheck(op'[u]) =>
                         \A i \in Held(u)' : shards'[i].latest = now'[u]
                    /\ pc'[u] \in {"locking", "working"} => reply'[u] = Pending
                    /\ pc'[u] \notin {"locking", "working"} => reply'[u].outcome # "pending"
                    /\ Sweeping(u)' => reply'[u].outcome = "done"
  BY DEF ReplyInv, Pending
<1>1. CASE u # t
  <2>1. /\ op'[u] = op[u] /\ pc'[u] = pc[u] /\ reply'[u] = reply[u] /\ now'[u] = now[u]
        /\ \A i \in ShardIndexes : owner'[i] = u => owner[i] = u /\ shards'[i] = shards[i]
    BY <1>1, OthersKeep
  <2>2. \A i \in Held(u)' : i \in Held(u) /\ shards'[i] = shards[i]
    BY <2>1 DEF Held
  <2>3. Sweeping(u)' = Sweeping(u)
    BY <2>1 DEF Sweeping
  <2> QED BY <2>1, <2>2, <2>3 DEF ReplyInv
<1>2. CASE u = t
  <2>1. CASE RejectBatch(t) \/ Begin(t)
    BY <1>2, <2>1 DEF RejectBatch, Begin, Submit, Reply, Typed, Sweeping, Pending, ReplyInv
  <2>2. CASE \E i \in ShardIndexes : Acquire(t, i)
    BY <1>2, <2>2 DEF Acquire, Typed, Sweeping, ReplyInv
  <2>3. CASE (\E i \in ShardIndexes : FailPoisoned(t, i)) \/ ClockPanic(t) \/ Stats(t)
    BY <1>2, <2>3 DEF FailPoisoned, ClockPanic, Stats, Reply, Typed, Sweeping
  <2>4. CASE StartSweep(t)
    BY <1>2, <2>4 DEF StartSweep, Reply, Typed, Sweeping, IsCheck
  <2>5. CASE \E observed \in Time : Evaluate(t, observed)
    <3>1. PICK observed \in Time : Evaluate(t, observed)
      BY <2>5
    <3> DEFINE at == ClampedNow(t, observed)
               fresh == Refreshed(t, at)
               decision == Decision(fresh, op[t].checks, at)
    <3>2. /\ IsCheck(op[t]) /\ op' = op /\ owner' = owner /\ shards' = fresh
          /\ now' = [now EXCEPT ![t] = at]
          /\ reply' = [reply EXCEPT ![t] = decision]
          /\ pc' = [pc EXCEPT ![t] = "writing"] \/ pc' = [pc EXCEPT ![t] = "releasing"]
      BY <3>1 DEF Evaluate
    <3>3. at \in Nat /\ fresh \in [ShardIndexes -> ShardType] /\ op[t] \in Operation \cup {Idle}
          /\ \A i \in Held(t) : fresh[i].latest = at
      BY ClampedNowLemma, RefreshedLemma DEF Typed, Held
    <3>4. decision.outcome # "pending"
      <4> HIDE DEF at, fresh
      <4> QED BY <3>3, DecisionOutcome
    <3>5. Held(t)' = Held(t)
      BY <3>2 DEF Held
    <3> HIDE DEF at, fresh, decision
    <3>6. pc'[t] \in {"writing", "releasing"} /\ reply'[t] = decision /\ now'[t] = at
      BY <3>2 DEF Typed
    <3> QED BY <1>2, <3>2, <3>3, <3>4, <3>5, <3>6 DEF Sweeping, IsCheck
  <2>6. CASE ConsumeNext(t)
    <3>1. PICK j \in todo[t] :
            /\ pc[t] = "writing" /\ IsCheck(op[t])
            /\ shards' = [shards EXCEPT ![ShardIndex(op[t].checks[j].key)] =
                             Consume(@, op[t].checks[j], now[t])]
            /\ pc' = [pc EXCEPT ![t] = IF todo[t] = {j} THEN "releasing" ELSE "writing"]
            /\ UNCHANGED <<owner, op, now, reply>>
      BY <2>6 DEF ConsumeNext, AfterWrite
    <3> DEFINE c == op[t].checks[j]
               h == ShardIndex(c.key)
    <3>2. c \in [key : Key, cost : Nat, mode : QuotaMode] /\ now[t] \in Nat
      BY <3>1, OperationLemma DEF LockInv, Typed
    <3>3. h \in ShardIndexes /\ shards[h] \in ShardType /\ IndexAgrees(shards[h])
      BY <3>2, ShardIndexInRange DEF Typed, IndexesAgree
    <3>4. Consume(shards[h], c, now[t]).latest = shards[h].latest
      <4> HIDE DEF c, h
      <4> QED BY <3>2, <3>3, ConsumeLemma
    <3>5. \A i \in ShardIndexes : shards'[i].latest = shards[i].latest
      <4> SUFFICES ASSUME NEW i \in ShardIndexes PROVE shards'[i].latest = shards[i].latest
        OBVIOUS
      <4>1. CASE i = h
        BY <3>1, <3>4, <4>1 DEF Typed
      <4>2. CASE i # h
        BY <3>1, <4>2 DEF Typed
      <4> QED BY <4>1, <4>2
    <3>6. Held(t)' = Held(t) /\ Held(t) \subseteq ShardIndexes
      BY <3>1 DEF Held
    <3>7. pc'[t] \in {"writing", "releasing"}
      BY <3>1 DEF Typed
    <3> QED BY <1>2, <3>1, <3>5, <3>6, <3>7 DEF ReplyInv, Sweeping, IsCheck
  <2>7. CASE ClearNext(t) \/ RebuildNext(t)
    <3>1. /\ pc[t] = "writing" /\ op[t].kind \in {"clear", "recover"} /\ op' = op /\ reply' = reply
          /\ pc'[t] \in {"writing", "releasing"}
      BY <2>7 DEF ClearNext, RebuildNext, AfterWrite, Typed
    <3> QED BY <1>2, <3>1 DEF ReplyInv, Sweeping, IsCheck
  <2>8. CASE Release(t) \/ Unwind(t)
    <3>1. pc[t] \in {"releasing", "panicking"} /\ pc'[t] \in {"idle", pc[t]} /\ reply' = reply /\ op' = op
      BY <2>8 DEF Release, Unwind, Unlock, Typed
    <3> QED BY <1>2, <3>1 DEF ReplyInv, Sweeping
  <2> QED BY <2>1, <2>2, <2>3, <2>4, <2>5, <2>6, <2>7, <2>8 DEF Work
<1> QED BY <1>1, <1>2

\* Recording a later time and pruning leave every counter alone that is live then.
LEMMA FreshEntry ==
  ASSUME NEW shard \in ShardType, IndexAgrees(shard), NEW at \in Nat, NEW limit, NEW k \in Key
  PROVE  LET s == PruneExpired(RecordObserved(shard, at), at, limit)
         IN  /\ s.latest = at
             /\ ActiveEntry(s, k, at) <=> shard.entries[k].expires > at
             /\ shard.entries[k].expires > at => s.entries[k] = shard.entries[k]
<1> DEFINE r == RecordObserved(shard, at)
           gone == PrunedExpirations(r, at, limit)
           left == [h \in Key |-> IF \E e \in gone : e[2] = h THEN Absent ELSE r.entries[h]]
           s == PruneExpired(r, at, limit)
<1>1. r = [latest |-> at, entries |-> shard.entries, expirations |-> shard.expirations]
  BY DEF RecordObserved
<1>2. s = [latest |-> at, entries |-> left, expirations |-> shard.expirations \ gone]
  BY <1>1 DEF PruneExpired, WithContents
<1>3. \A e \in gone : e \in shard.expirations /\ e[1] <= at
  BY <1>1 DEF PrunedExpirations
<1> HIDE DEF gone
<1>4. shard.entries[k].expires \in Nat
  BY DEF ShardType
<1>5. s.latest = at /\ s.entries[k] = IF \E e \in gone : e[2] = k THEN Absent ELSE shard.entries[k]
  BY <1>1, <1>2
<1>6. ASSUME NEW e \in gone, e[2] = k PROVE shard.entries[k].expires <= at
  BY <1>3, <1>6, IndexedPairs
<1>7. CASE \E e \in gone : e[2] = k
  <2>1. shard.entries[k].expires <= at
    BY <1>6, <1>7
  <2>2. s.entries[k].expires = 0
    BY <1>5, <1>7 DEF Absent
  <2> HIDE DEF s
  <2>3. /\ s.latest = at
        /\ ActiveEntry(s, k, at) <=> shard.entries[k].expires > at
        /\ shard.entries[k].expires > at => s.entries[k] = shard.entries[k]
    BY <1>4, <1>5, <2>1, <2>2 DEF ActiveEntry
  <2> QED BY <2>3 DEF s
<1>8. CASE ~\E e \in gone : e[2] = k
  <2>1. s.entries[k] = shard.entries[k]
    BY <1>5, <1>8
  <2> HIDE DEF s
  <2>2. /\ s.latest = at
        /\ ActiveEntry(s, k, at) <=> shard.entries[k].expires > at
        /\ shard.entries[k].expires > at => s.entries[k] = shard.entries[k]
    BY <1>5, <2>1 DEF ActiveEntry
  <2> QED BY <2>2 DEF s
<1> QED BY <1>7, <1>8

\* A window that is shown is open at its shard's time.
LEMMA WindowIsCurrent ==
  ASSUME Inv, CallInv, NEW k \in Key
  PROVE  /\ AbstractWindow[k] \in [used : Nat, expires : Nat]
         /\ AbstractWindow[k].expires > shards[ShardIndex(k)].latest
              \/ AbstractWindow[k] = [used |-> 0, expires |-> 0]
<1> DEFINE i == ShardIndex(k)
<1>1. i \in ShardIndexes /\ shards[i] \in ShardType
  BY ShardIndexInRange DEF Inv, Typed
<1> HIDE DEF i
<1>2. shards[i].latest \in Nat /\ shards[i].entries[k] \in [value : Nat, expires : Nat]
  BY <1>1 DEF ShardType
<1>3. CASE Charges(k, pc, op, todo) = {}
  <2>1. AbstractWindow[k] = SeenWindow(shards[i], k)
    BY <1>3, AbstractWindowIs, SeenUncharged DEF i
  <2> QED BY <1>2, <2>1 DEF SeenWindow, ActiveEntry, i
<1>4. CASE Charges(k, pc, op, todo) # {}
  <2>1. PICK h \in Charges(k, pc, op, todo) : TRUE
    BY <1>4
  <2> DEFINE t == h[1]
             j == h[2]
             c == op[t].checks[j]
  <2>2. /\ t \in Caller /\ IsCheck(op[t]) /\ pc[t] = "writing" /\ j \in DOMAIN op[t].checks /\ c.key = k
        /\ Charges(k, pc, op, todo) = {h} /\ h = <<t, j>>
    BY ChargeFacts DEF Charges
  <2>3. op[t] \in Operation /\ ~Rejected(op[t])
    BY <2>2 DEF CallInv
  <2>4. c \in [key : Key, cost : Nat, mode : QuotaMode] /\ c.cost \in Nat /\ Window[k] \in Nat \ {0}
    BY <2>2, <2>3, ValidOperation
  <2> HIDE DEF t, j
  <2>5. AbstractWindow[k] = ChargedWindow(shards[i], c)
    <3>1. OnlyCharge(k, pc, op, todo, t, j)
      BY <2>2, <2>4 DEF OnlyCharge
    <3> QED BY <1>1, <3>1, AbstractWindowIs, SeenCharged DEF i
  <2> HIDE DEF c
  <2>6. ChargedWindow(shards[i], c) =
          IF shards[i].entries[k].expires > shards[i].latest
          THEN [used |-> shards[i].entries[k].value + c.cost, expires |-> shards[i].entries[k].expires]
          ELSE [used |-> c.cost, expires |-> shards[i].latest + Window[k]]
    BY <2>2 DEF ChargedWindow, ActiveEntry, c
  <2> QED BY <1>2, <2>4, <2>5, <2>6 DEF i
<1> QED BY <1>3, <1>4

\* What a decision finds: a counter of a locked shard, pruned at the time of the
\* decision, is the window its callers see, at that time.
LEMMA DecisionSees ==
  ASSUME Inv, CallInv, NEW t \in Caller, pc[t] # "writing", NEW at \in Nat, NEW k \in Key,
         ShardIndex(k) \in Held(t), shards[ShardIndex(k)].latest <= at
  PROVE  LET w == AbstractWindow[k]
             s == Refreshed(t, at)[ShardIndex(k)]
         IN  /\ w \in [used : Nat, expires : Nat]
             /\ s.latest = at
             /\ SeenWindow(s, k) = IF w.expires > at THEN w ELSE [used |-> 0, expires |-> 0]
             /\ ActiveEntry(s, k, at) <=> w.expires > at
             /\ w.expires > at => w = [used |-> s.entries[k].value, expires |-> s.entries[k].expires]
<1> DEFINE i == ShardIndex(k)
           r == shards[i]
           l == RemovalLimit(op[t].checks, i)
           s == PruneExpired(RecordObserved(r, at), at, l)
           w == AbstractWindow[k]
<1>1. i \in ShardIndexes /\ owner[i] = t /\ r \in ShardType /\ IndexAgrees(r)
  BY DEF Held, Inv, Typed, IndexesAgree
<1>2. Refreshed(t, at)[i] = s
  BY <1>1 DEF Refreshed
<1>3. w = SeenWindow(r, k)
  <2>1. Charges(k, pc, op, todo) = {}
    BY <1>1, UnchargedShard
  <2> QED BY <2>1, AbstractWindowIs, SeenUncharged
<1>4. r.latest \in Nat /\ r.entries[k] \in [value : Nat, expires : Nat]
  BY <1>1 DEF ShardType
<1> HIDE DEF i, r, l
<1>5. /\ s.latest = at
      /\ ActiveEntry(s, k, at) <=> r.entries[k].expires > at
      /\ r.entries[k].expires > at => s.entries[k] = r.entries[k]
  BY <1>1, FreshEntry
<1>6. w = IF r.entries[k].expires > r.latest
          THEN [used |-> r.entries[k].value, expires |-> r.entries[k].expires]
          ELSE [used |-> 0, expires |-> 0]
  BY <1>3 DEF SeenWindow, ActiveEntry
<1>7. r.latest <= at
  BY DEF r, i
<1> HIDE DEF w, s
<1>8. w \in [used : Nat, expires : Nat] /\ (w.expires > at <=> r.entries[k].expires > at)
  BY <1>4, <1>6, <1>7
<1>9. CASE r.entries[k].expires > at
  <2>1. w = [used |-> s.entries[k].value, expires |-> s.entries[k].expires]
    BY <1>4, <1>5, <1>6, <1>7, <1>9
  <2>2. SeenWindow(s, k) = w
    BY <1>5, <1>9, <2>1 DEF SeenWindow
  <2> QED BY <1>2, <1>5, <1>8, <1>9, <2>1, <2>2 DEF w, i
<1>10. CASE ~(r.entries[k].expires > at)
  <2>1. SeenWindow(s, k) = [used |-> 0, expires |-> 0]
    BY <1>5, <1>10 DEF SeenWindow
  <2> QED BY <1>2, <1>5, <1>8, <1>10, <2>1 DEF w, i
<1> QED BY <1>9, <1>10

\* A step that shows nothing: windows, times, calls and answers stay as they are seen.
LEMMA StutterRefines ==
  ASSUME op' = op, \A k \in Key : AbstractWindow'[k] = AbstractWindow[k],
         \A k \in Key : shards'[ShardIndex(k)].latest = shards[ShardIndex(k)].latest,
         \A u \in Caller : Told(u)' = Told(u)
  PROVE  UNCHANGED Abstract!vars
<1>1. AbstractWindow' = AbstractWindow
  <2>1. AbstractWindow = [k \in Key |-> AbstractWindow[k]] /\ AbstractWindow' = [k \in Key |-> AbstractWindow'[k]]
    BY DEF AbstractWindow
  <2> QED BY <2>1
<1>2. [k \in Key |-> shards'[ShardIndex(k)].latest] = [k \in Key |-> shards[ShardIndex(k)].latest]
  OBVIOUS
<1>3. [u \in Caller |-> Told(u)'] = [u \in Caller |-> Told(u)]
  OBVIOUS
<1> QED BY <1>1, <1>2, <1>3 DEF Abstract!vars, Told

\* A step of AnchoredWindow is a step of one client.
LEMMA ClientStep ==
  ASSUME Inv, NEW t \in Caller, RejectBatch(t) \/ Begin(t) \/ Work(t),
         \/ \E o \in Operation : Abstract!Invoke(t, o)
         \/ Abstract!Admit(t)
         \/ Abstract!Deny(t)
         \/ Abstract!Refuse(t)
         \/ Abstract!Fail(t)
         \/ Abstract!Count(t)
         \/ Abstract!Discard(t)
  PROVE  Abstract!Next
<1>1. \A u \in Caller \ {t} : Told(u)' = Told(u)
  BY OthersTold
<1>2. \A u \in Caller \ {t} :
         [v \in Caller |-> Told(v)'][u] = [v \in Caller |-> Told(v)][u]
  BY <1>1
<1> QED BY <1>2 DEF Abstract!Next, Told

\* A step of a caller that writes nothing before or after it leaves windows and times.
LEMMA WindowsStay ==
  ASSUME Inv, NEW t \in Caller, RejectBatch(t) \/ Begin(t) \/ Work(t), UNCHANGED shards,
         pc[t] # "writing" \/ ~IsCheck(op[t]),
         pc'[t] # "writing" \/ ~IsCheck(op'[t])
  PROVE  /\ \A k \in Key : AbstractWindow'[k] = AbstractWindow[k]
         /\ UNCHANGED <<AbstractWindow, [k \in Key |-> shards[ShardIndex(k)].latest]>>
<1>1. ASSUME NEW k \in Key PROVE AbstractWindow'[k] = AbstractWindow[k]
  <2>1. /\ Charges(k, pc', op', todo') = Charges(k, pc, op, todo)
        /\ \A h \in Charges(k, pc, op, todo) : op'[h[1]] = op[h[1]]
    BY ChargesStay
  <2> QED BY <2>1, SeenUnchanged
<1>2. AbstractWindow = [k \in Key |-> AbstractWindow[k]] /\ AbstractWindow' = [k \in Key |-> AbstractWindow'[k]]
  BY DEF AbstractWindow
<1> QED BY <1>1, <1>2

\* Submitting an operation is an invocation.
LEMMA SubmitRefines ==
  ASSUME Inv, CallInv, ReplyInv, NEW t \in Caller, RejectBatch(t) \/ Begin(t)
  PROVE  Abstract!Next
<1>1. PICK o \in Operation :
        /\ pc[t] = "idle"
        /\ op' = [op EXCEPT ![t] = o]
        /\ shards' = shards
        /\ \/ pc' = pc /\ o.kind = "check_all" /\ reply' = [reply EXCEPT ![t] = Reply("invalid", 0, 0)]
           \/ pc' = [pc EXCEPT ![t] = "locking"] /\ reply' = [reply EXCEPT ![t] = Pending]
  BY DEF RejectBatch, Begin, Submit, Rejected
<1>2. pc'[t] # "writing" /\ ~Sweeping(t) /\ ~Sweeping(t)'
  BY <1>1 DEF Inv, Typed, Sweeping
<1>3. UNCHANGED <<AbstractWindow, [k \in Key |-> shards[ShardIndex(k)].latest]>>
  BY <1>1, <1>2, WindowsStay
<1>4. Told(t).outcome # "pending"
  BY <1>1, <1>2 DEF Told, ReplyInv
<1>5. Told(t)'.outcome = "pending" \/ (o.kind = "check_all" /\ Told(t)'.outcome = "invalid")
  BY <1>1, <1>2 DEF Told, Inv, Typed, Reply, Pending
<1>6. /\ [v \in Caller |-> Told(v)][t].outcome # "pending"
      /\ \/ [v \in Caller |-> Told(v)'][t].outcome = "pending"
         \/ o.kind = "check_all" /\ [v \in Caller |-> Told(v)'][t].outcome = "invalid"
  BY <1>4, <1>5
<1>7. Abstract!Invoke(t, o)
  BY <1>1, <1>3, <1>6 DEF Abstract!Invoke, Abstract!Waiting, Told
<1> QED BY <1>7, ClientStep

\* Taking and dropping locks shows nothing.
LEMMA LockRefines ==
  ASSUME Inv, NEW t \in Caller, (\E i \in ShardIndexes : Acquire(t, i)) \/ Release(t) \/ Unwind(t)
  PROVE  UNCHANGED Abstract!vars
<1>1. /\ shards' = shards /\ op' = op /\ reply' = reply
      /\ pc[t] \in {"locking", "releasing", "panicking"}
      /\ pc'[t] \in {"locking", "working", "idle", "releasing", "panicking"}
  BY DEF Acquire, Release, Unwind, Unlock, Inv, Typed
<1>2. RejectBatch(t) \/ Begin(t) \/ Work(t)
  BY DEF Work
<1>3. \A k \in Key : AbstractWindow'[k] = AbstractWindow[k]
  BY <1>1, <1>2, WindowsStay
<1>4. \A u \in Caller : Told(u)' = Told(u)
  <2>1. Told(t)' = Told(t)
    BY <1>1 DEF Told, Sweeping
  <2> QED BY <1>2, <2>1, OthersTold
<1> QED BY <1>1, <1>3, <1>4, StutterRefines

\* Failing on poison, or in the clock, is a failure.
LEMMA FailRefines ==
  ASSUME Inv, ReplyInv, NEW t \in Caller, (\E i \in ShardIndexes : FailPoisoned(t, i)) \/ ClockPanic(t)
  PROVE  Abstract!Next
<1>1. /\ shards' = shards /\ op' = op
      /\ pc[t] \in {"locking", "working"}
      /\ pc'[t] \in {"idle", "releasing", "panicking"}
      /\ reply'[t].outcome \in {"poisoned", "panicked"}
  BY DEF FailPoisoned, ClockPanic, Inv, Typed, Reply
<1>2. RejectBatch(t) \/ Begin(t) \/ Work(t)
  BY DEF Work
<1>3. UNCHANGED <<AbstractWindow, [k \in Key |-> shards[ShardIndex(k)].latest]>>
  BY <1>1, <1>2, WindowsStay
<1>4. Told(t).outcome = "pending" /\ Told(t)'.outcome \in {"poisoned", "panicked"}
  BY <1>1 DEF Told, Sweeping, ReplyInv, Pending
<1>5. /\ [v \in Caller |-> Told(v)][t].outcome = "pending"
      /\ [v \in Caller |-> Told(v)'][t].outcome \in {"poisoned", "panicked"}
  BY <1>4
<1>6. Abstract!Fail(t)
  BY <1>1, <1>3, <1>5 DEF Abstract!Fail, Abstract!Answer, Abstract!Waiting, Told
<1> QED BY <1>2, <1>6, ClientStep

\* Statistics count at least the open windows.
LEMMA StatsRefines ==
  ASSUME Inv, CallInv, ReplyInv, NEW t \in Caller, Stats(t)
  PROVE  Abstract!Next
<1>1. /\ shards' = shards /\ op' = op /\ pc[t] = "working" /\ pc'[t] = "releasing" /\ op[t].kind = "stats"
      /\ reply'[t] = Reply("stats", Cardinality(StoredAnywhere), 0)
  BY DEF Stats, Inv, Typed
<1>2. RejectBatch(t) \/ Begin(t) \/ Work(t)
  BY DEF Work
<1>3. UNCHANGED <<AbstractWindow, [k \in Key |-> shards[ShardIndex(k)].latest]>>
  BY <1>1, <1>2, WindowsStay
<1> DEFINE Open == {k \in Key : AbstractWindow[k] # Abstract!NoWindow}
           f == [k \in Open |-> <<ShardIndex(k), k>>]
           R == {f[k] : k \in Open}
<1>4. Cardinality(StoredAnywhere) >= Cardinality(Open)
  <2>1. ASSUME NEW k \in Open PROVE <<ShardIndex(k), k>> \in StoredAnywhere
    <3>1. k \in Key /\ ShardIndex(k) \in ShardIndexes
      BY ShardIndexInRange
    <3>2. owner[ShardIndex(k)] = t
      BY <1>1, <3>1 DEF Inv, LockInv, ShardsToLock, Held
    <3>3. Charges(k, pc, op, todo) = {}
      BY <1>1, <3>1, <3>2, UnchargedShard
    <3>4. AbstractWindow[k] = SeenWindow(shards[ShardIndex(k)], k)
      BY <3>1, <3>3, AbstractWindowIs, SeenUncharged
    <3>5. ActiveEntry(shards[ShardIndex(k)], k, shards[ShardIndex(k)].latest)
      BY <3>4 DEF SeenWindow, Abstract!NoWindow
    <3>6. shards[ShardIndex(k)].entries[k] # Absent
      <4>1. shards[ShardIndex(k)].latest \in Nat
        BY <3>1 DEF Inv, Typed, ShardType
      <4> QED BY <3>5, <4>1 DEF ActiveEntry, Absent
    <3> QED BY <3>1, <3>6 DEF StoredAnywhere, ContainsKey, Stored
  <2>2. R \subseteq StoredAnywhere
    BY <2>1
  <2>3. IsFiniteSet(StoredAnywhere)
    <3>1. IsFiniteSet(ShardIndexes)
      BY ShardsAssumption, FS_Interval DEF ShardIndexes
    <3>2. IsFiniteSet(ShardIndexes \X Key)
      BY <3>1, ShardsAssumption, FS_Product
    <3> QED BY <3>2, FS_Subset DEF StoredAnywhere
  <2>4. IsFiniteSet(R) /\ Cardinality(R) <= Cardinality(StoredAnywhere)
    <3> HIDE DEF R
    <3> QED BY <2>2, <2>3, FS_Subset
  <2>5. IsFiniteSet(Open)
    <3>1. Open \subseteq Key
      OBVIOUS
    <3> QED BY <3>1, ShardsAssumption, FS_Subset
  <2>6. Cardinality(R) = Cardinality(Open)
    <3>1. f \in [Open -> R]
      OBVIOUS
    <3>2. \A a, b \in Open : f[a] = f[b] => a = b
      OBVIOUS
    <3>3. \A e \in R : \E a \in Open : f[a] = e
      OBVIOUS
    <3> HIDE DEF f, R, Open
    <3>4. f \in Bijection(Open, R)
      BY <3>1, <3>2, <3>3 DEF Bijection, Injection, Surjection, IsInjective
    <3> QED BY <2>5, <3>4, FS_Bijection DEF ExistsBijection
  <2>7. Cardinality(StoredAnywhere) \in Nat /\ Cardinality(R) \in Nat
    BY <2>3, <2>4, FS_CardinalityType
  <2> HIDE DEF R, Open
  <2> QED BY <2>4, <2>6, <2>7
<1>5. Told(t).outcome = "pending" /\ Told(t)'.outcome = "stats" /\ Told(t)'.index = Cardinality(StoredAnywhere)
  BY <1>1 DEF Told, Sweeping, ReplyInv, Pending, Reply
<1>6. /\ [v \in Caller |-> Told(v)][t].outcome = "pending"
      /\ [v \in Caller |-> Told(v)'][t].outcome \in {"stats"}
      /\ [v \in Caller |-> Told(v)'][t].index >= Cardinality(Open)
  BY <1>4, <1>5
<1>7. Abstract!Cardinality(Open) = Cardinality(Open)
  <2> HIDE DEF Open
  <2> QED BY Zenon DEF Abstract!Cardinality, Cardinality
<1>8. Abstract!Count(t)
  BY <1>1, <1>3, <1>6, <1>7 DEF Abstract!Count, Abstract!Answer, Abstract!Waiting, Told
<1> QED BY <1>2, <1>8, ClientStep

\* Starting to clear or recover discards nothing yet.
LEMMA StartSweepRefines ==
  ASSUME Inv, ReplyInv, NEW t \in Caller, StartSweep(t)
  PROVE  Abstract!Next
<1>1. /\ shards' = shards /\ op' = op /\ pc[t] = "working" /\ pc'[t] \in {"releasing", "writing"}
      /\ op[t].kind \in {"clear", "recover"} /\ reply'[t].outcome = "done"
  BY DEF StartSweep, Inv, Typed, Reply
<1>2. RejectBatch(t) \/ Begin(t) \/ Work(t)
  BY DEF Work
<1>3. UNCHANGED <<AbstractWindow, [k \in Key |-> shards[ShardIndex(k)].latest]>>
  BY <1>1, <1>2, WindowsStay DEF IsCheck
<1>4. Told(t).outcome = "pending" /\ Told(t)'.outcome \in {"pending", "done"}
  BY <1>1 DEF Told, Sweeping, ReplyInv, Pending
<1>5. /\ [v \in Caller |-> Told(v)][t].outcome = "pending"
      /\ [v \in Caller |-> Told(v)'][t].outcome \in {"pending", "done"}
  BY <1>4
<1>6. Abstract!Discard(t)
  BY <1>1, <1>3, <1>5 DEF Abstract!Discard, Abstract!Waiting, Told
<1> QED BY <1>2, <1>6, ClientStep

\* Clearing or rebuilding a shard discards its windows, and no others.
LEMMA SweepRefines ==
  ASSUME Inv, CallInv, ReplyInv, NEW t \in Caller, ClearNext(t) \/ RebuildNext(t)
  PROVE  Abstract!Next
<1>1. PICK i \in todo[t] :
        /\ pc[t] = "writing" /\ op[t].kind \in {"clear", "recover"} /\ op' = op /\ reply' = reply
        /\ pc'[t] \in {"releasing", "writing"}
        /\ \/ shards' = [shards EXCEPT ![i] = ClearShard(@)]
           \/ shards' = [shards EXCEPT ![i] = EmptyShard] /\ op[t].kind = "recover"
  BY DEF ClearNext, RebuildNext, AfterWrite, Inv, Typed
<1>2. RejectBatch(t) \/ Begin(t) \/ Work(t)
  BY DEF Work
<1>3. /\ i \in ShardIndexes /\ ~IsCheck(op[t]) /\ shards[i] \in ShardType
      /\ \A h \in ShardIndexes : owner[h] = t
  BY <1>1 DEF Inv, LockInv, ShardsToLock, IsCheck, Held, Typed
<1>4. /\ \A h \in ShardIndexes \ {i} : shards'[h] = shards[h]
      /\ shards'[i] \in ShardType /\ shards'[i].entries = [k \in Key |-> Absent]
      /\ shards'[i].latest = shards[i].latest \/ op[t].kind = "recover"
  <2>1. \A h \in ShardIndexes \ {i} : shards'[h] = shards[h]
    BY <1>1, <1>3 DEF Inv, Typed
  <2>2. shards'[i] = ClearShard(shards[i]) \/ (shards'[i] = EmptyShard /\ op[t].kind = "recover")
    BY <1>1, <1>3 DEF Inv, Typed
  <2>3. EmptyShard.entries = [k \in Key |-> Absent] /\ ClearShard(shards[i]).entries = [k \in Key |-> Absent]
    BY DEF EmptyShard, ClearShard, WithContents
  <2>4. /\ ClearShard(shards[i]) \in ShardType /\ ClearShard(shards[i]).latest = shards[i].latest
        /\ EmptyShard \in ShardType
    BY <1>3, ClearShardLemma, EmptyShardLemma
  <2> QED BY <2>1, <2>2, <2>3, <2>4
<1>5. ASSUME NEW k \in Key
      PROVE  \/ /\ AbstractWindow'[k] = AbstractWindow[k]
                /\ shards'[ShardIndex(k)].latest = shards[ShardIndex(k)].latest
             \/ /\ AbstractWindow'[k] = Abstract!NoWindow
                /\ shards'[ShardIndex(k)].latest = shards[ShardIndex(k)].latest \/ op[t].kind = "recover"
  <2>0. ShardIndex(k) \in ShardIndexes
    BY ShardIndexInRange
  <2>1. /\ Charges(k, pc', op', todo') = Charges(k, pc, op, todo)
        /\ \A h \in Charges(k, pc, op, todo) : op'[h[1]] = op[h[1]]
    BY <1>1, <1>2, <1>3, ChargesStay
  <2>2. CASE ShardIndex(k) # i
    BY <1>4, <2>0, <2>1, <2>2, SeenUnchanged
  <2>3. CASE ShardIndex(k) = i
    <3>1. Charges(k, pc, op, todo) = {}
      BY <1>3, <2>0, UnchargedShard
    <3>2. AbstractWindow'[k] = SeenWindow(shards'[i], k)
      BY <2>1, <2>3, <3>1, AbstractWindowIs, SeenUncharged
    <3>3. shards'[i].latest \in Nat /\ shards'[i].entries[k].expires = 0
      BY <1>4 DEF ShardType, Absent
    <3>4. SeenWindow(shards'[i], k) = Abstract!NoWindow
      BY <3>3 DEF SeenWindow, ActiveEntry, Abstract!NoWindow
    <3> QED BY <1>4, <2>3, <3>2, <3>4
  <2> QED BY <2>2, <2>3
<1>6. Told(t).outcome = "pending" /\ Told(t)'.outcome \in {"pending", "done"}
  BY <1>1 DEF Told, Sweeping, ReplyInv, Pending
<1>7. /\ [v \in Caller |-> Told(v)][t].outcome = "pending"
      /\ [v \in Caller |-> Told(v)'][t].outcome \in {"pending", "done"}
  BY <1>6
<1>8. \A k \in Key :
        LET T == [h \in Key |-> shards[ShardIndex(h)].latest]
            U == [h \in Key |-> shards'[ShardIndex(h)].latest]
        IN  \/ AbstractWindow'[k] = AbstractWindow[k] /\ U[k] = T[k]
            \/ AbstractWindow'[k] = Abstract!NoWindow /\ (U[k] = T[k] \/ op[t].kind = "recover")
  BY <1>5
<1>9. Abstract!Discard(t)
  BY <1>1, <1>7, <1>8 DEF Abstract!Discard, Abstract!Waiting, Told
<1> QED BY <1>2, <1>9, ClientStep

\* Writing an admitted check shows nothing: it has been seen as charged since the
\* operation was decided.
LEMMA ConsumeRefines ==
  ASSUME Inv, CallInv, ReplyInv, NEW t \in Caller, ConsumeNext(t)
  PROVE  UNCHANGED Abstract!vars
<1>1. PICK j \in todo[t] :
        /\ pc[t] = "writing" /\ IsCheck(op[t])
        /\ shards' = [shards EXCEPT ![ShardIndex(op[t].checks[j].key)] =
                         Consume(@, op[t].checks[j], now[t])]
        /\ todo' = [todo EXCEPT ![t] = @ \ {j}]
        /\ pc' = [pc EXCEPT ![t] = IF todo[t] = {j} THEN "releasing" ELSE "writing"]
        /\ UNCHANGED <<owner, op, now, reply>>
  BY DEF ConsumeNext, AfterWrite
<1> DEFINE c == op[t].checks[j]
           i == ShardIndex(c.key)
<1>2. /\ op[t] \in Operation /\ ~Rejected(op[t]) /\ j \in DOMAIN op[t].checks
      /\ Held(t) = ShardsToLock(op[t])
  BY <1>1 DEF Inv, LockInv, CallInv
<1>3. /\ c \in [key : Key, cost : Nat, mode : QuotaMode] /\ c.key \in Key /\ c.cost \in Nat
      /\ Window[c.key] \in Nat \ {0} /\ j \in 1..MaxBatchSize
  BY <1>1, <1>2, ValidOperation
<1>4. i \in ShardIndexes /\ i \in Held(t) /\ shards[i] \in ShardType /\ IndexAgrees(shards[i])
  BY <1>1, <1>2, <1>3, ShardIndexInRange DEF ShardsToLock, IsCheck, TouchedShards, Inv, Typed, IndexesAgree
<1>5. now[t] = shards[i].latest
  BY <1>1, <1>4 DEF ReplyInv
<1>6. /\ shards'[i] = Consume(shards[i], c, shards[i].latest)
      /\ \A h \in ShardIndexes \ {i} : shards'[h] = shards[h]
  BY <1>1, <1>4, <1>5 DEF Inv, Typed
<1>7. <<t, j>> \in Charges(c.key, pc, op, todo)
  BY <1>1, <1>3 DEF Charges
<1>8. pc'[t] \in {"writing", "releasing"} /\ todo'[t] = todo[t] \ {j} /\ (pc'[t] = "releasing" => todo[t] = {j})
      /\ \A u \in Caller \ {t} : pc'[u] = pc[u] /\ todo'[u] = todo[u]
  BY <1>1 DEF Inv, Typed
<1>9. ASSUME NEW k \in Key PROVE Charges(k, pc', op', todo') = Charges(k, pc, op, todo) \ {<<t, j>>}
  <2>1. ASSUME NEW h \in Caller \X (1..MaxBatchSize)
        PROVE  h \in Charges(k, pc', op', todo') <=> h \in Charges(k, pc, op, todo) /\ h # <<t, j>>
    <3>1. h[1] \in Caller /\ h = <<h[1], h[2]>>
      OBVIOUS
    <3>2. CASE h[1] # t
      <4>1. pc'[h[1]] = pc[h[1]] /\ todo'[h[1]] = todo[h[1]] /\ op' = op /\ h # <<t, j>>
        BY <1>1, <1>8, <3>1, <3>2
      <4> QED BY <4>1 DEF Charges
    <3>3. CASE h[1] = t
      <4>1. h = <<t, j>> <=> h[2] = j
        BY <3>1, <3>3
      <4> QED BY <1>1, <1>8, <3>3, <4>1 DEF Charges
    <3> QED BY <3>2, <3>3
  <2>2. /\ Charges(k, pc', op', todo') \subseteq Caller \X (1..MaxBatchSize)
        /\ Charges(k, pc, op, todo) \subseteq Caller \X (1..MaxBatchSize)
    BY DEF Charges
  <2> QED BY <2>1, <2>2
<1> HIDE DEF c, i
<1>10. shards'[i].latest = shards[i].latest /\ shards'[i] \in ShardType
  <2>1. shards[i].latest \in Nat
    BY <1>4 DEF ShardType
  <2> QED BY <1>3, <1>4, <1>6, <2>1, ConsumeLemma
<1>11. ASSUME NEW k \in Key PROVE AbstractWindow'[k] = AbstractWindow[k]
  <2>1. CASE k = c.key
    <3>1. Charges(k, pc, op, todo) = {<<t, j>>}
      BY <1>7, <2>1, ChargeFacts
    <3>2. AbstractWindow[k] = ChargedWindow(shards[i], c)
      <4>1. ShardIndex(k) = i
        BY <2>1 DEF i
      <4>2. op[t].checks[j] = c
        BY DEF c
      <4>3. WindowOf(k, shards[i], pc, op, todo) = ChargedWindow(shards[i], op[t].checks[j])
        <5>1. OnlyCharge(k, pc, op, todo, t, j)
          BY <1>3, <2>1, <3>1, <4>2 DEF OnlyCharge
        <5> QED BY <1>4, <5>1, SeenCharged
      <4> QED BY <4>1, <4>2, <4>3, AbstractWindowIs
    <3>3. Charges(k, pc', op', todo') = {}
      BY <1>9, <3>1
    <3>4. AbstractWindow'[k] = SeenWindow(shards'[i], k)
      BY <2>1, <3>3, AbstractWindowIs, SeenUncharged DEF i
    <3> DEFINE e == shards'[i].entries[k]
    <3>5. [used |-> e.value, expires |-> e.expires] = ChargedWindow(shards[i], c)
      BY <1>3, <1>4, <1>6, <2>1, ConsumedEntry
    <3>6. e.expires > shards'[i].latest
      <4>1. e.expires = ChargedWindow(shards[i], c).expires
        <5> HIDE DEF e
        <5>1. [used |-> e.value, expires |-> e.expires].expires = e.expires
          OBVIOUS
        <5> QED BY <3>5, <5>1
      <4>2. shards[i].latest \in Nat
        BY <1>4 DEF ShardType
      <4>3. ChargedWindow(shards[i], c).expires > shards[i].latest
        BY <1>3, <4>2 DEF ChargedWindow, ActiveEntry
      <4> QED BY <1>10, <4>1, <4>3
    <3>7. SeenWindow(shards'[i], k) = [used |-> e.value, expires |-> e.expires]
      BY <3>6 DEF SeenWindow, ActiveEntry
    <3> QED BY <3>2, <3>4, <3>5, <3>7
  <2>2. CASE k # c.key
    <3>1. <<t, j>> \notin Charges(k, pc, op, todo)
      BY <2>2 DEF Charges, c
    <3>2. Charges(k, pc', op', todo') = Charges(k, pc, op, todo)
      BY <1>9, <3>1
    <3>3. CASE ShardIndex(k) # i
      BY <1>1, <1>6, <3>2, <3>3, SeenUnchanged, ShardIndexInRange
    <3>4. CASE ShardIndex(k) = i
      <4>1. shards'[i].entries[k] = shards[i].entries[k]
        BY <1>3, <1>4, <1>6, <2>2, ConsumedOthers
      <4>2. CASE Charges(k, pc, op, todo) = {}
        <5>1. AbstractWindow[k] = SeenWindow(shards[i], k) /\ AbstractWindow'[k] = SeenWindow(shards'[i], k)
          BY <3>2, <3>4, <4>2, AbstractWindowIs, SeenUncharged
        <5> QED BY <1>10, <4>1, <5>1, SeenLocally
      <4>3. CASE Charges(k, pc, op, todo) # {}
        <5>1. PICK h \in Charges(k, pc, op, todo) : TRUE
          BY <4>3
        <5> DEFINE u == h[1]
                   g == h[2]
                   d == op[u].checks[g]
        <5>2. /\ u \in Caller /\ IsCheck(op[u]) /\ pc[u] = "writing" /\ g \in DOMAIN op[u].checks
              /\ d.key = k /\ Charges(k, pc, op, todo) = {h} /\ h = <<u, g>>
          BY ChargeFacts DEF Charges
        <5>3. d \in [key : Key, cost : Nat, mode : QuotaMode]
          BY <5>2, ValidOperation DEF CallInv
        <5> HIDE DEF u, g
        <5>4. AbstractWindow[k] = ChargedWindow(shards[i], d)
          <6>1. OnlyCharge(k, pc, op, todo, u, g)
            BY <5>2, <5>3 DEF OnlyCharge
          <6>2. shards[i] \in ShardType
            BY <1>4
          <6>3. WindowOf(k, shards[i], pc, op, todo) = ChargedWindow(shards[i], d)
            BY <6>1, <6>2, SeenCharged
          <6> QED BY <3>4, <6>3, AbstractWindowIs
        <5>5. AbstractWindow'[k] = ChargedWindow(shards'[i], d)
          <6>1. op' = op
            BY <1>1
          <6>2. OnlyCharge(k, pc', op', todo', u, g)
            BY <3>2, <5>2, <5>3, <6>1 DEF OnlyCharge
          <6>3. shards'[i] \in ShardType
            BY <1>10
          <6>4. WindowOf(k, shards'[i], pc', op', todo') = ChargedWindow(shards'[i], op'[u].checks[g])
            BY <6>2, <6>3, SeenCharged
          <6> QED BY <3>4, <6>1, <6>4, AbstractWindowIs
        <5>6. ChargedWindow(shards'[i], d) = ChargedWindow(shards[i], d)
          BY <1>10, <4>1, <5>2 DEF ChargedWindow, ActiveEntry
        <5> QED BY <5>4, <5>5, <5>6
      <4> QED BY <4>2, <4>3
    <3> QED BY <3>3, <3>4
  <2> QED BY <2>1, <2>2
<1>12. \A k \in Key : shards'[ShardIndex(k)].latest = shards[ShardIndex(k)].latest
  BY <1>6, <1>10, ShardIndexInRange
<1>13. \A u \in Caller : Told(u)' = Told(u)
  <2>1. Told(t)' = Told(t)
    BY <1>1, <1>8 DEF Told, Sweeping, IsCheck
  <2>2. RejectBatch(t) \/ Begin(t) \/ Work(t)
    BY DEF Work
  <2> QED BY <2>1, <2>2, OthersTold
<1> QED BY <1>1, <1>11, <1>12, <1>13, StutterRefines

\* The passage of time on a counter, in terms of the shards.
LEMMA ElapsedIs ==
  ASSUME NEW k \in Key, shards'[ShardIndex(k)].latest >= shards[ShardIndex(k)].latest,
         AbstractWindow'[k] = IF AbstractWindow[k].expires > shards'[ShardIndex(k)].latest
                              THEN AbstractWindow[k] ELSE [used |-> 0, expires |-> 0]
  PROVE  Abstract!Elapsed(k)
<1>1. /\ [h \in Key |-> shards[ShardIndex(h)].latest][k] = shards[ShardIndex(k)].latest
      /\ [h \in Key |-> shards'[ShardIndex(h)].latest][k] = shards'[ShardIndex(k)].latest
  OBVIOUS
<1> QED BY <1>1 DEF Abstract!Elapsed, Abstract!WindowAt, Abstract!NoWindow

\* A decision finds a check within its limit exactly when the window its callers see,
\* at the time of the decision, has room for its cost.
LEMMA WithinIs ==
  ASSUME Inv, CallInv, NEW t \in Caller, pc[t] # "writing", NEW at \in Nat,
         NEW c \in [key : Key, cost : Nat, mode : QuotaMode],
         ShardIndex(c.key) \in Held(t), shards[ShardIndex(c.key)].latest <= at,
         c.cost <= Limit[c.key], Limit[c.key] \in Nat
  PROVE  Abstract!Within(c, at) <=> ~QuotaDenied(Refreshed(t, at), c, at)
<1> DEFINE k == c.key
           w == AbstractWindow[k]
           s == Refreshed(t, at)[ShardIndex(k)]
<1>1. k \in Key /\ c.cost \in Nat
  OBVIOUS
<1>2. /\ w \in [used : Nat, expires : Nat]
      /\ ActiveEntry(s, k, at) <=> w.expires > at
      /\ w.expires > at => w = [used |-> s.entries[k].value, expires |-> s.entries[k].expires]
  BY <1>1, DecisionSees
<1>3. QuotaDenied(Refreshed(t, at), c, at) <=> ActiveEntry(s, k, at) /\ c.cost > Limit[k] - s.entries[k].value
  BY DEF QuotaDenied
<1>4. Abstract!Within(c, at) <=> (IF w.expires > at THEN w ELSE Abstract!NoWindow).used + c.cost <= Limit[k]
  BY DEF Abstract!Within, Abstract!WindowAt
<1> HIDE DEF w, s
<1>5. CASE w.expires > at
  <2>1. w.used = s.entries[k].value /\ w.used \in Nat
    <3>1. w = [used |-> s.entries[k].value, expires |-> s.entries[k].expires]
      BY <1>2, <1>5
    <3>2. [used |-> s.entries[k].value, expires |-> s.entries[k].expires].used = s.entries[k].value
      OBVIOUS
    <3> QED BY <1>2, <3>1, <3>2
  <2> QED BY <1>1, <1>2, <1>3, <1>4, <1>5, <2>1
<1>6. CASE ~(w.expires > at)
  <2>1. Abstract!NoWindow.used = 0
    BY DEF Abstract!NoWindow
  <2> QED BY <1>1, <1>2, <1>3, <1>4, <1>6, <2>1
<1> QED BY <1>5, <1>6

\* Deciding an operation is its one visible instant: it is admitted and charged as a
\* whole, denied by the first check over its limit, or refused for want of room.
LEMMA EvaluateRefines ==
  ASSUME Inv, CallInv, ReplyInv, NEW t \in Caller, NEW observed \in Time, Evaluate(t, observed)
  PROVE  Abstract!Next
<1> DEFINE at == ClampedNow(t, observed)
           fresh == Refreshed(t, at)
           checks == op[t].checks
           D == DOMAIN checks
           decision == Decision(fresh, checks, at)
           T == [k \in Key |-> shards[ShardIndex(k)].latest]
           U == [k \in Key |-> shards'[ShardIndex(k)].latest]
<1>1. /\ pc[t] = "working" /\ IsCheck(op[t])
      /\ shards' = fresh
      /\ reply' = [reply EXCEPT ![t] = decision]
      /\ \/ /\ decision.outcome = "allowed"
            /\ todo' = [todo EXCEPT ![t] = D]
            /\ pc' = [pc EXCEPT ![t] = "writing"]
         \/ /\ decision.outcome # "allowed"
            /\ pc' = [pc EXCEPT ![t] = "releasing"]
      /\ op' = op
  BY DEF Evaluate
<1>2. RejectBatch(t) \/ Begin(t) \/ Work(t)
  BY DEF Work
<1>3. at \in Nat /\ \A i \in Held(t) : shards[i].latest <= at
  BY ClampedNowLemma DEF Inv
<1>4. /\ fresh \in [ShardIndexes -> ShardType]
      /\ \A i \in Held(t) : fresh[i].latest = at
      /\ \A i \in ShardIndexes \ Held(t) : fresh[i] = shards[i]
  BY <1>3, RefreshedLemma DEF Inv, Held
<1>5. op[t] \in Operation /\ ~Rejected(op[t]) /\ Held(t) = TouchedShards(checks)
  BY <1>1 DEF Inv, LockInv, CallInv, ShardsToLock, IsCheck
<1>6. /\ 1 \in D /\ D \subseteq 1..MaxBatchSize
      /\ \A i, j \in D : checks[i].key = checks[j].key => i = j
      /\ \A j \in D : /\ checks[j] \in [key : Key, cost : Nat, mode : QuotaMode]
                      /\ checks[j].key \in Key /\ checks[j].cost \in Nat
                      /\ checks[j].cost <= Limit[checks[j].key] /\ Limit[checks[j].key] \in Nat
  BY <1>1, <1>5, ValidOperation
<1>7. \A j \in D : ShardIndex(checks[j].key) \in Held(t)
  BY <1>5 DEF TouchedShards
<1>8. Told(t).outcome = "pending" /\ Told(t)' = decision
  <2>1. reply'[t] = decision /\ ~Sweeping(t) /\ ~Sweeping(t)'
    BY <1>1 DEF Inv, Typed, Sweeping, IsCheck
  <2> QED BY <1>1, <2>1 DEF Told, ReplyInv, Pending
<1>9. \A u \in Caller \ {t} : op'[u] = op[u] /\ pc'[u] = pc[u] /\ todo'[u] = todo[u]
  BY <1>2, OthersKeep
<1>10. op[t] \in Operation \cup {Idle}
  BY <1>5
<1> HIDE DEF at, fresh, decision
<1>11. \A k \in Key : ShardIndex(k) \in ShardIndexes
  BY ShardIndexInRange
<1>12. \A k \in Key : /\ shards[ShardIndex(k)].latest \in Nat
                      /\ shards'[ShardIndex(k)].latest \in Nat
                      /\ shards'[ShardIndex(k)].latest >= shards[ShardIndex(k)].latest
                      /\ ShardIndex(k) \in Held(t) => shards'[ShardIndex(k)].latest = at
  <2> SUFFICES ASSUME NEW k \in Key
               PROVE  /\ shards[ShardIndex(k)].latest \in Nat
                      /\ shards'[ShardIndex(k)].latest \in Nat
                      /\ shards'[ShardIndex(k)].latest >= shards[ShardIndex(k)].latest
                      /\ ShardIndex(k) \in Held(t) => shards'[ShardIndex(k)].latest = at
    OBVIOUS
  <2>1. shards[ShardIndex(k)].latest \in Nat
    BY <1>11 DEF Inv, Typed, ShardType
  <2> QED BY <1>1, <1>3, <1>4, <1>11, <2>1
<1>13. \A j \in D : U[checks[j].key] = at /\ at >= T[checks[j].key]
  BY <1>6, <1>7, <1>12
<1>14. U[checks[1].key] = at
  BY <1>6, <1>13
<1>sees. ASSUME NEW k \in Key, ShardIndex(k) \in Held(t)
         PROVE  /\ AbstractWindow[k] \in [used : Nat, expires : Nat]
                /\ SeenWindow(fresh[ShardIndex(k)], k) =
                     IF AbstractWindow[k].expires > at THEN AbstractWindow[k] ELSE [used |-> 0, expires |-> 0]
                /\ fresh[ShardIndex(k)].latest = at
                /\ ActiveEntry(fresh[ShardIndex(k)], k, at) <=> AbstractWindow[k].expires > at
                /\ AbstractWindow[k].expires > at =>
                     AbstractWindow[k] = [used |-> fresh[ShardIndex(k)].entries[k].value,
                                          expires |-> fresh[ShardIndex(k)].entries[k].expires]
  <2>1. pc[t] # "writing"
    BY <1>1
  <2>2. shards[ShardIndex(k)].latest <= at
    BY <1>3, <1>sees
  <2> QED BY <1>3, <1>sees, <2>1, <2>2, DecisionSees DEF fresh
<1>15. \A j \in D : Abstract!Within(checks[j], at) <=> ~QuotaDenied(fresh, checks[j], at)
  BY <1>1, <1>3, <1>6, <1>7, WithinIs DEF fresh
<1>16. ASSUME NEW k \in Key, Charges(k, pc', op', todo') = Charges(k, pc, op, todo)
       PROVE  Abstract!Elapsed(k)
  <2> DEFINE i == ShardIndex(k)
  <2>1. CASE i \in Held(t)
    <3>1. Charges(k, pc, op, todo) = {}
      BY <1>1, <2>1, UnchargedShard DEF Held
    <3>2. AbstractWindow'[k] = SeenWindow(fresh[i], k)
      BY <1>1, <1>16, <3>1, AbstractWindowIs, SeenUncharged
    <3>3. SeenWindow(fresh[i], k) =
            IF AbstractWindow[k].expires > at THEN AbstractWindow[k] ELSE [used |-> 0, expires |-> 0]
      BY <2>1, <1>sees
    <3> QED BY <1>12, <2>1, <3>2, <3>3, ElapsedIs
  <2>2. CASE i \notin Held(t)
    <3>1. shards'[i] = shards[i]
      BY <1>1, <1>4, <1>11, <2>2
    <3>2. AbstractWindow'[k] = AbstractWindow[k]
      BY <1>1, <1>16, <3>1, SeenUnchanged
    <3>3. \/ AbstractWindow[k].expires > shards[i].latest
          \/ AbstractWindow[k] = [used |-> 0, expires |-> 0]
      BY WindowIsCurrent
    <3> QED BY <1>12, <3>1, <3>2, <3>3, ElapsedIs
  <2> QED BY <2>1, <2>2
<1>17. ASSUME decision.outcome # "allowed" PROVE \A k \in Key : Abstract!Elapsed(k)
  <2>1. pc'[t] = "releasing"
    BY <1>1, <1>17 DEF Inv, Typed
  <2>2. \A k \in Key : Charges(k, pc', op', todo') = Charges(k, pc, op, todo)
    BY <1>1, <1>2, <2>1, ChargesStay
  <2> QED BY <1>16, <2>2
<1>18. /\ [v \in Caller |-> Told(v)][t].outcome = "pending"
       /\ [v \in Caller |-> Told(v)'][t] = decision
  BY <1>8
<1>19. Abstract!CommonTime(checks, at)
  BY <1>13 DEF Abstract!CommonTime
<1>20. CASE /\ decision = Reply("allowed", 0, 0)
            /\ \A j \in D : ~QuotaDenied(fresh, checks[j], at)
  <2>1. pc'[t] = "writing" /\ todo'[t] = D /\ decision.outcome = "allowed"
    BY <1>1, <1>20 DEF Inv, Typed, Reply
  <2>2. ASSUME NEW k \in Key, NEW h \in Caller \X (1..MaxBatchSize)
        PROVE  h \in Charges(k, pc', op', todo') <=>
                 h \in Charges(k, pc, op, todo) \/ (h[1] = t /\ h[2] \in D /\ checks[h[2]].key = k)
    <3>1. CASE h[1] = t
      BY <1>1, <2>1, <3>1 DEF Charges
    <3>2. CASE h[1] # t
      <4>1. op'[h[1]] = op[h[1]] /\ pc'[h[1]] = pc[h[1]] /\ todo'[h[1]] = todo[h[1]]
        BY <1>9, <3>2
      <4> QED BY <3>2, <4>1 DEF Charges
    <3> QED BY <3>1, <3>2
  <2>3. ASSUME NEW k \in Key
        PROVE  /\ Charges(k, pc', op', todo') \subseteq Caller \X (1..MaxBatchSize)
               /\ Charges(k, pc, op, todo) \subseteq Caller \X (1..MaxBatchSize)
    BY DEF Charges
  <2>4. ASSUME NEW k \in Key, ~\E j \in D : checks[j].key = k PROVE Abstract!Elapsed(k)
    <3>1. Charges(k, pc', op', todo') = Charges(k, pc, op, todo)
      BY <2>2, <2>3, <2>4
    <3> QED BY <1>16, <3>1
  <2>5. ASSUME NEW j \in D
        PROVE  AbstractWindow'[checks[j].key] = Abstract!Charged(checks[j].key, checks[j].cost, at)
    <3> DEFINE c == checks[j]
               k == c.key
               i == ShardIndex(k)
               w == AbstractWindow[k]
    <3>1. c \in [key : Key, cost : Nat, mode : QuotaMode] /\ k \in Key /\ i \in Held(t) /\ i \in ShardIndexes
      BY <1>6, <1>7, <1>11
    <3>2. Charges(k, pc, op, todo) = {}
      BY <1>1, <3>1, UnchargedShard DEF Held
    <3>3. Charges(k, pc', op', todo') = {<<t, j>>}
      <4>1. ASSUME NEW h \in Charges(k, pc', op', todo') PROVE h = <<t, j>>
        <5>1. h \in Caller \X (1..MaxBatchSize)
          BY <2>3, <3>1
        <5>2. h[1] = t /\ h[2] \in D /\ checks[h[2]].key = k
          BY <2>2, <3>1, <3>2, <5>1
        <5>3. h[2] = j
          BY <1>6, <5>2
        <5> QED BY <5>1, <5>2, <5>3
      <4>2. <<t, j>> \in Charges(k, pc', op', todo')
        <5>1. <<t, j>> \in Caller \X (1..MaxBatchSize) /\ <<t, j>>[1] = t /\ <<t, j>>[2] = j
          BY <1>6
        <5> QED BY <2>2, <3>1, <5>1
      <4> QED BY <4>1, <4>2
    <3>4. AbstractWindow'[k] = ChargedWindow(fresh[i], c)
      <4>1. op'[t].checks[j] = c
        BY <1>1
      <4>2. fresh[i] \in ShardType /\ shards'[i] = fresh[i]
        BY <1>1, <1>4, <3>1
      <4>3. WindowOf(k, fresh[i], pc', op', todo') = ChargedWindow(fresh[i], op'[t].checks[j])
        <5> HIDE DEF c, k, i
        <5>1. c.key = k
          BY DEF k
        <5>2. OnlyCharge(k, pc', op', todo', t, j)
          BY <3>1, <3>3, <4>1, <5>1 DEF OnlyCharge
        <5> QED BY <3>1, <4>2, <5>2, SeenCharged
      <4> QED BY <3>1, <4>1, <4>2, <4>3, AbstractWindowIs
    <3>5. /\ w \in [used : Nat, expires : Nat]
          /\ fresh[i].latest = at
          /\ ActiveEntry(fresh[i], k, at) <=> w.expires > at
          /\ w.expires > at => w = [used |-> fresh[i].entries[k].value, expires |-> fresh[i].entries[k].expires]
      BY <3>1, <1>sees, Zenon
    <3>6. Abstract!Charged(k, c.cost, at) = IF w.expires > at THEN [w EXCEPT !.used = @ + c.cost]
                                            ELSE [used |-> c.cost, expires |-> at + Window[k]]
      BY DEF Abstract!Charged
    <3>7. ChargedWindow(fresh[i], c) =
            IF ActiveEntry(fresh[i], k, at)
            THEN [used |-> fresh[i].entries[k].value + c.cost, expires |-> fresh[i].entries[k].expires]
            ELSE [used |-> c.cost, expires |-> at + Window[k]]
      BY <3>5 DEF ChargedWindow
    <3>8. CASE w.expires > at
      <4> DEFINE a == fresh[i].entries[k].value
                 b == fresh[i].entries[k].expires
      <4>1. w = [used |-> a, expires |-> b]
        BY <3>5, <3>8
      <4>2. ChargedWindow(fresh[i], c) = [used |-> a + c.cost, expires |-> b]
        BY <3>5, <3>7, <3>8
      <4> HIDE DEF a, b, w
      <4>3. [w EXCEPT !.used = @ + c.cost] = [used |-> a + c.cost, expires |-> b]
        BY <4>1
      <4> QED BY <3>4, <3>6, <3>8, <4>2, <4>3
    <3>9. CASE ~(w.expires > at)
      BY <3>4, <3>5, <3>6, <3>7, <3>9
    <3> QED BY <3>8, <3>9
  <2>6. \A k \in Key :
          IF \E j \in D : checks[j].key = k
          THEN \E j \in D : checks[j].key = k /\ AbstractWindow'[k] = Abstract!Charged(k, checks[j].cost, at)
          ELSE Abstract!Elapsed(k)
    BY <2>4, <2>5
  <2>7. \A j \in D : Abstract!Within(checks[j], at)
    BY <1>15, <1>20
  <2>8. Abstract!Answer(t, {"allowed"})
    BY <1>1, <1>18, <2>1 DEF Abstract!Answer, Abstract!Waiting, Told
  <2>9. Abstract!Admit(t)
    BY <1>14, <1>19, <2>6, <2>7, <2>8 DEF Abstract!Admit
  <2> QED BY <1>2, <2>9, ClientStep
<1>21. ASSUME NEW j \in D,
              decision = Reply(IF checks[j].mode = "Shadow" THEN "shadow_denied" ELSE "quota_denied", j,
                               fresh[ShardIndex(checks[j].key)].entries[checks[j].key].expires - at),
              QuotaDenied(fresh, checks[j], at),
              \A h \in 1..(j - 1) : ~QuotaDenied(fresh, checks[h], at)
       PROVE  Abstract!Next
  <2> DEFINE k == checks[j].key
             s == fresh[ShardIndex(k)]
             w == AbstractWindow[k]
  <2>1. /\ decision.outcome \in {"quota_denied", "shadow_denied"} /\ decision.index = j
        /\ decision.retry = s.entries[k].expires - at
        /\ decision.outcome = "shadow_denied" <=> checks[j].mode = "Shadow"
    BY <1>21 DEF Reply
  <2>2. \A k_1 \in Key : Abstract!Elapsed(k_1)
    BY <1>17, <2>1
  <2>3. ~Abstract!Within(checks[j], at)
    BY <1>15, <1>21
  <2>4. \A h \in 1..(j - 1) : Abstract!Within(checks[h], at)
    <3>1. \A h \in 1..(j - 1) : h \in D
      <4>1. D = 1..Len(checks) /\ Len(checks) \in Nat
        BY <1>10, OperationLemma
      <4> QED BY <4>1
    <3> QED BY <1>15, <1>21, <3>1
  <2>5. decision.retry = w.expires - at
    <3>1. k \in Key /\ ShardIndex(k) \in Held(t)
      BY <1>6, <1>7
    <3>2. ActiveEntry(s, k, at)
      BY <1>21 DEF QuotaDenied
    <3>3. /\ ActiveEntry(s, k, at) <=> w.expires > at
          /\ w.expires > at => w = [used |-> s.entries[k].value, expires |-> s.entries[k].expires]
      BY <3>1, <1>sees, Zenon
    <3>4. w.expires = s.entries[k].expires
      <4> HIDE DEF w, s, k
      <4>1. w = [used |-> s.entries[k].value, expires |-> s.entries[k].expires]
        BY <3>2, <3>3
      <4>2. [used |-> s.entries[k].value, expires |-> s.entries[k].expires].expires = s.entries[k].expires
        OBVIOUS
      <4> QED BY <4>1, <4>2
    <3> QED BY <2>1, <3>4
  <2>6. Abstract!Answer(t, {"quota_denied", "shadow_denied"})
    BY <1>1, <1>18, <2>1 DEF Abstract!Answer, Abstract!Waiting, Told
  <2>7. /\ [v \in Caller |-> Told(v)'][t].index = j
        /\ [v \in Caller |-> Told(v)'][t].retry = w.expires - at
        /\ [v \in Caller |-> Told(v)'][t].outcome = "shadow_denied" <=> checks[j].mode = "Shadow"
    BY <1>18, <2>1, <2>5
  <2>8. Abstract!Deny(t)
    BY <1>14, <1>19, <2>2, <2>3, <2>4, <2>6, <2>7 DEF Abstract!Deny, Told
  <2> QED BY <1>2, <2>8, ClientStep
<1>22. ASSUME NEW j \in D,
              decision = Reply("capacity_denied", j, CapacityRetryAfter(fresh[ShardIndex(checks[j].key)], at)),
              CapacityDenied(fresh, checks, j)
       PROVE  Abstract!Next
  <2> DEFINE k == checks[j].key
             s == fresh[ShardIndex(k)]
             w == AbstractWindow[k]
  <2>1. decision.outcome = "capacity_denied" /\ decision.index = j
    BY <1>22 DEF Reply
  <2>2. \A k_1 \in Key : Abstract!Elapsed(k_1)
    BY <1>17, <2>1
  <2>3. k \in Key /\ ShardIndex(k) \in Held(t)
    BY <1>6, <1>7
  <2>4. ~(w.expires > at)
    <3>1. s.entries[k] = Absent
      BY <1>22, <2>3 DEF CapacityDenied, Missing, ContainsKey, Stored
    <3>2. ~ActiveEntry(s, k, at)
      BY <1>3, <3>1 DEF ActiveEntry, Absent
    <3>3. ActiveEntry(s, k, at) <=> w.expires > at
      BY <2>3, <1>sees
    <3> QED BY <3>2, <3>3
  <2>5. Abstract!WindowAt(k, U[k]) = Abstract!NoWindow
    BY <1>13, <2>4 DEF Abstract!WindowAt
  <2>6. Abstract!Answer(t, {"capacity_denied"})
    BY <1>1, <1>18, <2>1 DEF Abstract!Answer, Abstract!Waiting, Told
  <2>7. [v \in Caller |-> Told(v)'][t].index = j
    BY <1>18, <2>1
  <2>8. Abstract!Refuse(t)
    BY <2>2, <2>5, <2>6, <2>7 DEF Abstract!Refuse, Told
  <2> QED BY <1>2, <2>8, ClientStep
<1>23. \/ /\ decision = Reply("allowed", 0, 0)
          /\ \A j \in D : ~QuotaDenied(fresh, checks[j], at) /\ ~CapacityDenied(fresh, checks, j)
       \/ \E j \in D :
            /\ decision = Reply(IF checks[j].mode = "Shadow" THEN "shadow_denied" ELSE "quota_denied", j,
                                fresh[ShardIndex(checks[j].key)].entries[checks[j].key].expires - at)
            /\ QuotaDenied(fresh, checks[j], at)
            /\ \A h \in 1..(j - 1) : ~QuotaDenied(fresh, checks[h], at)
       \/ \E j \in D :
            /\ decision = Reply("capacity_denied", j,
                                CapacityRetryAfter(fresh[ShardIndex(checks[j].key)], at))
            /\ CapacityDenied(fresh, checks, j)
  BY <1>3, <1>4, <1>10, DecisionCases, Zenon DEF decision
<1> QED BY <1>20, <1>21, <1>22, <1>23

\* The store starts with no window, at time zero, and with nobody waiting.
LEMMA InitRefines ==
  ASSUME Init
  PROVE  ReplyInv /\ Abstract!Init
<1>1. ReplyInv
  BY DEF Init, ReplyInv, Sweeping, NoReply
<1>2. ASSUME NEW k \in Key
      PROVE  /\ AbstractWindow[k] = Abstract!NoWindow
             /\ shards[ShardIndex(k)].latest = 0
  <2>1. shards[ShardIndex(k)] = EmptyShard
    BY ShardIndexInRange DEF Init
  <2>2. Charges(k, pc, op, todo) = {}
    BY DEF Init, Charges
  <2>3. AbstractWindow[k] = SeenWindow(EmptyShard, k)
    BY <2>1, <2>2, AbstractWindowIs, SeenUncharged
  <2>4. EmptyShard.latest = 0 /\ EmptyShard.entries[k].expires = 0
    BY DEF EmptyShard, Absent
  <2> QED BY <2>1, <2>3, <2>4 DEF SeenWindow, ActiveEntry, Abstract!NoWindow
<1>3. AbstractWindow = [k \in Key |-> Abstract!NoWindow]
  <2>1. AbstractWindow = [k \in Key |-> AbstractWindow[k]]
    BY DEF AbstractWindow
  <2> QED BY <1>2, <2>1
<1>4. [k \in Key |-> shards[ShardIndex(k)].latest] = [k \in Key |-> 0]
  BY <1>2
<1>5. \A t \in Caller : [v \in Caller |-> Told(v)][t].outcome # "pending"
  BY DEF Init, Told, Sweeping, NoReply
<1> QED BY <1>1, <1>3, <1>4, <1>5 DEF Abstract!Init, Told

\* Every step of the store is a step of the anchored windows or shows nothing.
LEMMA NextRefines ==
  ASSUME Inv, CallInv, ReplyInv, [Next]_vars
  PROVE  CallInv' /\ ReplyInv' /\ [Abstract!Next]_Abstract!vars
<1>1. CASE UNCHANGED vars
  <2>1. CallInv'
    BY <1>1 DEF vars, CallInv, Rejected
  <2>2. ReplyInv'
    BY <1>1 DEF vars, ReplyInv, Sweeping, Held, Pending
  <2>3. \A k \in Key : AbstractWindow'[k] = AbstractWindow[k]
    BY <1>1, SeenUnchanged DEF vars
  <2>4. \A u \in Caller : Told(u)' = Told(u)
    BY <1>1 DEF vars, Told, Sweeping, Pending
  <2> QED BY <1>1, <2>1, <2>2, <2>3, <2>4, StutterRefines DEF vars
<1>2. ASSUME NEW t \in Caller, RejectBatch(t) \/ Begin(t) \/ Work(t)
      PROVE  CallInv' /\ ReplyInv' /\ [Abstract!Next]_Abstract!vars
  <2>1. CallInv' /\ ReplyInv'
    BY <1>2, CallStep, ReplyStep
  <2>2. CASE RejectBatch(t) \/ Begin(t)
    BY <2>1, <2>2, SubmitRefines
  <2>3. CASE (\E i \in ShardIndexes : Acquire(t, i)) \/ Release(t) \/ Unwind(t)
    BY <2>1, <2>3, LockRefines
  <2>4. CASE (\E i \in ShardIndexes : FailPoisoned(t, i)) \/ ClockPanic(t)
    BY <2>1, <2>4, FailRefines
  <2>5. CASE \E observed \in Time : Evaluate(t, observed)
    BY <2>1, <2>5, EvaluateRefines
  <2>6. CASE ConsumeNext(t)
    BY <2>1, <2>6, ConsumeRefines
  <2>7. CASE Stats(t) \/ StartSweep(t) \/ ClearNext(t) \/ RebuildNext(t)
    BY <2>1, <2>7, StatsRefines, StartSweepRefines, SweepRefines
  <2> QED BY <1>2, <2>2, <2>3, <2>4, <2>5, <2>6, <2>7 DEF Work
<1> QED BY <1>1, <1>2 DEF Next, Finished

\* ImplementsAnchoredWindow: whatever the shards, locks, index and pruning do, every
\* call of the store takes effect at one instant, a batch as a whole, on windows that
\* are anchored at their first charge and that nothing but clear or recovery cuts short.
THEOREM Refinement == Spec => ImplementsAnchoredWindow
<1>1. Init => CallInv /\ ReplyInv /\ Abstract!Init
  BY InitRefines DEF Init, CallInv
<1>2. Inv /\ CallInv /\ ReplyInv /\ [Next]_vars => CallInv' /\ ReplyInv' /\ [Abstract!Next]_Abstract!vars
  BY NextRefines
<1> QED BY <1>1, <1>2, Invariance, PTL DEF Spec, ImplementsAnchoredWindow, Abstract!Spec

=============================================================================
