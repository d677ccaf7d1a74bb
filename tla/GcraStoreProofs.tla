-------------------------- MODULE GcraStoreProofs --------------------------
(***************************************************************************)
(* Proofs about GcraStore, for every number of shards and counters, every  *)
(* mix of policies, every set of calls, every clock and every width of the *)
(* integers: the shards stay bounded and indexed, expiry forgives no debt, *)
(* over every stretch of a counter's history no more is admitted than its  *)
(* burst and its rate allow, clamping to a shard's time locks no counter   *)
(* out, and the store implements TokenBucket.                              *)
(***************************************************************************)
EXTENDS GcraStore, FiniteSetTheorems, TLAPS

----------------------------------------------------------------------------
(* Numbers and sets                                                        *)

\* A nonempty finite set of naturals has a maximum, and Max chooses it.
LEMMA MaxOfFinite ==
  ASSUME NEW S \in SUBSET Nat, IsFiniteSet(S), S # {}
  PROVE  Max(S) \in S /\ \A y \in S : y <= Max(S)
<1> DEFINE HasMax(A) == \E x \in A : \A y \in A : y <= x
<1> DEFINE Bad == {A \in SUBSET S : A # {} /\ ~HasMax(A)}
<1>1. Bad = {}
  <2> SUFFICES ASSUME Bad # {} PROVE FALSE
    OBVIOUS
  <2>1. IsWellFoundedOn(StrictSubsetOrdering(S), SUBSET S)
    BY FS_StrictSubsetOrderingWellFounded, FS_FiniteSubsetsOfFinite
  <2>2. PICK A \in Bad : \A B \in Bad : ~(<<B, A>> \in StrictSubsetOrdering(S))
    <3>1. Bad \subseteq SUBSET S
      OBVIOUS
    <3> HIDE DEF Bad
    <3> QED BY <2>1, <3>1, WFMin
  <2>3. PICK x \in A : TRUE
    BY <2>2
  <2> DEFINE B == A \ {x}
  <2>4. B # A /\ B \subseteq A /\ B \in SUBSET S /\ A \in SUBSET S
    BY <2>2, <2>3
  <2>5. <<B, A>> \in StrictSubsetOrdering(S)
    BY <2>4 DEF StrictSubsetOrdering
  <2>6. B = {} \/ HasMax(B)
    BY <2>2, <2>4, <2>5
  <2>7. HasMax(A)
    <3>1. A \subseteq Nat
      BY <2>2
    <3>2. CASE B = {}
      <4>1. A = {x}
        BY <2>3, <3>2
      <4> QED BY <4>1, <3>1
    <3>3. CASE HasMax(B)
      <4>1. PICK m \in B : \A y \in B : y <= m
        BY <3>3
      <4>2. CASE x <= m
        BY <4>1, <4>2, <2>3
      <4>3. CASE ~(x <= m)
        <5>1. \A y \in A : y <= x
          BY <4>1, <4>3, <2>3, <3>1
        <5> QED BY <5>1, <2>3
      <4> QED BY <4>2, <4>3
    <3> QED BY <2>6, <3>2, <3>3
  <2> QED BY <2>2, <2>7
<1>2. HasMax(S)
  BY <1>1
<1>3. PICK x \in S : \A y \in S : y <= x
  BY <1>2
<1>4. \A y \in S : x >= y
  BY <1>3
<1>5. Max(S) \in S /\ \A y \in S : Max(S) >= y
  BY <1>4 DEF Max
<1> QED BY <1>5

\* A nonempty set of naturals has a minimum, and Min chooses it.
LEMMA MinOfNaturals ==
  ASSUME NEW S \in SUBSET Nat, S # {}
  PROVE  Min(S) \in S /\ \A y \in S : Min(S) <= y
<1> DEFINE Less(x, y) == <<x, y>> \in OpToRel(<, Nat)
<1>1. PICK n \in S : \A m \in S : ~Less(m, n)
  BY NatLessThanWellFounded, WFMin
<1>2. \A x, y \in Nat : x < y => Less(x, y)
  BY DEF OpToRel
<1> HIDE DEF Less
<1>3. \A y \in S : n <= y
  BY <1>1, <1>2
<1> QED BY <1>3 DEF Min

\* Mapping a finite set of indexes through a function yields at most as many values.
LEMMA ImageBound ==
  ASSUME NEW M, IsFiniteSet(M), NEW T, NEW f \in [M -> T]
  PROVE  /\ IsFiniteSet({f[j] : j \in M})
         /\ Cardinality({f[j] : j \in M}) <= Cardinality(M)
<1> DEFINE R == {f[j] : j \in M}
<1>1. f \in Surjection(M, R)
  BY DEF Surjection
<1> QED BY <1>1, FS_Surjection

\* Arithmetic the SMT backend does not find by itself: products with a common factor.
LEMMA TimesMonotone ==
  ASSUME NEW m \in Nat, NEW n \in Nat, NEW q \in Nat, m <= n
  PROVE  m * q \in Nat /\ n * q \in Nat /\ m * q <= n * q
<1>1. n - m \in Nat /\ n = m + (n - m)
  OBVIOUS
<1>2. (n - m) * q \in Nat /\ m * q \in Nat /\ n * q \in Nat
  BY <1>1
<1>3. n * q = m * q + (n - m) * q
  BY <1>1
<1> QED BY <1>2, <1>3

\* The quotient is the largest multiple within the dividend.
LEMMA QuotientBounds ==
  ASSUME NEW a \in Nat, NEW q \in Nat \ {0}
  PROVE  /\ a \div q \in Nat
         /\ (a \div q) * q \in Nat
         /\ (a \div q) * q <= a
         /\ a < (a \div q) * q + q
<1>1. a = q * (a \div q) + (a % q) /\ 0 <= a % q /\ a % q < q /\ a % q \in Nat /\ a \div q \in Int
  OBVIOUS
<1>2. a \div q \in Nat
  OBVIOUS
<1> QED BY <1>1, <1>2

\* Division rounding up: the least number of divisors that covers the dividend.
LEMMA CeilingDivision ==
  ASSUME NEW a \in Nat, NEW q \in Nat \ {0}
  PROVE  /\ (a + q - 1) \div q \in Nat
         /\ a > 0 => (a + q - 1) \div q > 0
         /\ \A n \in Nat : (a + q - 1) \div q <= n <=> a <= n * q
<1> DEFINE d == (a + q - 1) \div q
<1>1. d \in Nat /\ d * q \in Nat /\ d * q <= a + q - 1 /\ a + q - 1 < d * q + q
  <2>1. a + q - 1 \in Nat
    OBVIOUS
  <2> QED BY <2>1, QuotientBounds
<1> HIDE DEF d
<1>2. ASSUME NEW n \in Nat, d <= n PROVE a <= n * q
  <2>1. d * q <= n * q /\ n * q \in Nat
    BY <1>1, <1>2, TimesMonotone
  <2> QED BY <1>1, <2>1
<1>3. ASSUME NEW n \in Nat, a <= n * q PROVE d <= n
  <2> SUFFICES ASSUME n + 1 <= d PROVE FALSE
    BY <1>1
  <2>1. (n + 1) * q <= d * q
    BY <1>1, TimesMonotone
  <2>2. (n + 1) * q = n * q + q /\ n * q \in Nat
    OBVIOUS
  <2> QED BY <1>1, <1>3, <2>1, <2>2
<1>4. a > 0 => d > 0
  <2>1. d = 0 => d * q = 0
    OBVIOUS
  <2> QED BY <1>1, <2>1
<1> QED BY <1>1, <1>2, <1>3, <1>4 DEF d

----------------------------------------------------------------------------
(* The shard operators                                                     *)

\* Every key hashes to one of the configured shards.
LEMMA ShardIndexInRange ==
  ASSUME NEW k \in Key
  PROVE  ShardIndex(k) \in ShardIndexes
<1>1. Hash[k] \in Nat /\ ShardCount \in Nat /\ ShardCount > 0
  BY ShardsAssumption
<1>2. Hash[k] % ShardCount \in 0..(ShardCount - 1)
  BY <1>1
<1> QED BY <1>2 DEF ShardIndex, ShardIndexes

\* Shard capacities are naturals.
LEMMA ShardCapacityType ==
  ASSUME NEW i \in ShardIndexes
  PROVE  ShardCapacity(i) \in Nat
<1>1. MaxKeys \in Nat /\ ShardCount \in Nat /\ ShardCount > 0
  BY ShardsAssumption
<1>2. MaxKeys \div ShardCount \in Nat
  BY <1>1
<1> QED BY <1>2 DEF ShardCapacity

\* The stored keys of any shard form a finite set.
LEMMA StoredFinite ==
  ASSUME NEW shard
  PROVE  /\ Stored(shard) \subseteq Key
         /\ IsFiniteSet(Stored(shard))
         /\ Used(shard) \in Nat
<1>1. Stored(shard) \subseteq Key
  BY DEF Stored
<1>2. IsFiniteSet(Stored(shard))
  BY <1>1, ShardsAssumption, FS_Subset
<1> QED BY <1>1, <1>2, FS_CardinalityType DEF Used

\* A new shard is well typed, empty and indexed.
LEMMA EmptyShardLemma ==
  /\ EmptyShard \in ShardType
  /\ Stored(EmptyShard) = {}
  /\ IndexAgrees(EmptyShard)
<1>1. EmptyShard \in ShardType
  BY DEF EmptyShard, ShardType, Absent
<1>2. Stored(EmptyShard) = {}
  BY DEF EmptyShard, Stored
<1> QED BY <1>1, <1>2 DEF IndexAgrees, EmptyShard

\* Clearing a shard keeps its type and time and leaves it empty and indexed.
LEMMA ClearShardLemma ==
  ASSUME NEW shard \in ShardType
  PROVE  /\ ClearShard(shard) \in ShardType
         /\ ClearShard(shard).latest = shard.latest
         /\ Stored(ClearShard(shard)) = {}
         /\ IndexAgrees(ClearShard(shard))
<1>1. ClearShard(shard) =
        [latest |-> shard.latest, entries |-> [k \in Key |-> Absent], expirations |-> {}]
  BY DEF ClearShard, WithContents
<1>2. ClearShard(shard) \in ShardType
  BY <1>1 DEF ShardType, Absent
<1>3. Stored(ClearShard(shard)) = {}
  BY <1>1 DEF Stored
<1> QED BY <1>1, <1>2, <1>3 DEF IndexAgrees

\* Recording a time changes neither counters nor index.
LEMMA RecordObservedLemma ==
  ASSUME NEW shard \in ShardType, NEW at \in Nat
  PROVE  /\ RecordObserved(shard, at) \in ShardType
         /\ RecordObserved(shard, at).latest = at
         /\ Stored(RecordObserved(shard, at)) = Stored(shard)
         /\ IndexAgrees(shard) => IndexAgrees(RecordObserved(shard, at))
<1>1. RecordObserved(shard, at) =
        [latest |-> at, entries |-> shard.entries, expirations |-> shard.expirations]
  BY DEF RecordObserved
<1>2. RecordObserved(shard, at) \in ShardType
  BY <1>1 DEF ShardType
<1>3. Stored(RecordObserved(shard, at)) = Stored(shard)
  BY <1>1 DEF Stored
<1> QED BY <1>1, <1>2, <1>3 DEF IndexAgrees

\* Pruning removes counters together with their index entries, only expired ones, adds
\* nothing and leaves the recorded time alone.
LEMMA PruneLemma ==
  ASSUME NEW shard \in ShardType, NEW at, NEW limit, IndexAgrees(shard)
  PROVE  /\ PruneExpired(shard, at, limit) \in ShardType
         /\ PruneExpired(shard, at, limit).latest = shard.latest
         /\ Stored(PruneExpired(shard, at, limit)) \subseteq Stored(shard)
         /\ IndexAgrees(PruneExpired(shard, at, limit))
         /\ \A k \in Key : \/ PruneExpired(shard, at, limit).entries[k] = shard.entries[k]
                          \/ /\ PruneExpired(shard, at, limit).entries[k] = Absent
                             /\ shard.entries[k].expires <= at
<1> DEFINE gone == PrunedExpirations(shard, at, limit)
<1> DEFINE left == [k \in Key |-> IF \E e \in gone : e[2] = k THEN Absent ELSE shard.entries[k]]
<1> DEFINE P == [latest |-> shard.latest, entries |-> left,
                 expirations |-> shard.expirations \ gone]
<1>1. PruneExpired(shard, at, limit) = P
  BY DEF PruneExpired, WithContents
<1>2. gone \subseteq shard.expirations /\ \A e \in gone : e[1] <= at
  BY DEF PrunedExpirations
<1> HIDE DEF gone
<1>3. P \in ShardType
  BY DEF ShardType, Absent
<1>4. Stored(P) \subseteq Stored(shard)
  BY DEF Stored
<1>5. IndexAgrees(P)
  <2>1. shard.expirations = {<<shard.entries[k].expires, k>> : k \in Stored(shard)}
    BY DEF IndexAgrees
  <2>2. ASSUME NEW k \in Stored(P)
        PROVE  <<P.entries[k].expires, k>> \in P.expirations
    <3>1. k \in Key /\ k \in Stored(shard) /\ P.entries[k] = shard.entries[k]
      BY <1>4 DEF Stored
    <3>2. <<shard.entries[k].expires, k>> \in shard.expirations
      BY <2>1, <3>1
    <3>3. <<shard.entries[k].expires, k>> \notin gone
      BY <2>2, <3>1 DEF Stored
    <3> QED BY <3>1, <3>2, <3>3
  <2>3. ASSUME NEW e \in P.expirations
        PROVE  \E k \in Stored(P) : e = <<P.entries[k].expires, k>>
    <3>1. e \in shard.expirations /\ e \notin gone
      OBVIOUS
    <3>2. PICK k \in Stored(shard) : e = <<shard.entries[k].expires, k>>
      BY <2>1, <3>1
    <3>3. ASSUME NEW g \in gone, g[2] = k PROVE FALSE
      <4>1. PICK h \in Stored(shard) : g = <<shard.entries[h].expires, h>>
        BY <1>2, <2>1
      <4>2. h = k
        BY <4>1, <3>3
      <4> QED BY <4>1, <4>2, <3>1, <3>2
    <3>4. k \in Key
      BY <3>2 DEF Stored
    <3>5. left[k] = shard.entries[k]
      BY <3>3, <3>4
    <3>6. k \in Stored(P)
      BY <3>2, <3>4, <3>5 DEF Stored
    <3> QED BY <3>2, <3>5, <3>6
  <2> HIDE DEF P
  <2> QED BY <2>2, <2>3 DEF IndexAgrees
<1>6. ASSUME NEW k \in Key PROVE P.entries[k] = shard.entries[k]
                              \/ (P.entries[k] = Absent /\ shard.entries[k].expires <= at)
  <2>1. CASE \E e \in gone : e[2] = k
    <3>1. PICK e \in gone : e[2] = k
      BY <2>1
    <3>2. PICK h \in Stored(shard) : e = <<shard.entries[h].expires, h>>
      BY <1>2 DEF IndexAgrees
    <3>3. h = k /\ shard.entries[k].expires = e[1] /\ e[1] <= at
      BY <1>2, <3>1, <3>2
    <3> QED BY <2>1, <3>3
  <2>2. CASE ~\E e \in gone : e[2] = k
    BY <2>2
  <2> QED BY <2>1, <2>2
<1>7. P.latest = shard.latest
  OBVIOUS
<1> HIDE DEF P
<1> QED BY <1>1, <1>3, <1>4, <1>5, <1>6, <1>7

\* The capacity hint is a natural number.
LEMMA RetryType ==
  ASSUME NEW shard \in ShardType, NEW at \in Nat
  PROVE  CapacityRetryAfter(shard, at) \in Nat
<1> DEFINE E == {e[1] : e \in shard.expirations}
<1>1. CASE shard.expirations = {}
  BY <1>1 DEF CapacityRetryAfter, NoRetry
<1>2. CASE shard.expirations # {}
  <2>1. E \in SUBSET Nat /\ E # {}
    BY <1>2 DEF ShardType
  <2>2. Min(E) \in Nat
    BY <2>1, MinOfNaturals
  <2>3. CapacityRetryAfter(shard, at) = IF Min(E) > at THEN Min(E) - at ELSE 1
    BY <1>2 DEF CapacityRetryAfter
  <2> HIDE DEF E
  <2> QED BY <2>2, <2>3
<1> QED BY <1>1, <1>2

\* Replacing several counters stores exactly those keys, each under its one new expiration.
LEMMA ReplaceAllLemma ==
  ASSUME NEW shard \in ShardType, IndexAgrees(shard), NEW K \in SUBSET Key,
         NEW new \in [K -> [value : Nat, expires : Nat \ {0}]]
  PROVE  /\ ReplaceAll(shard, new) \in ShardType
         /\ ReplaceAll(shard, new).latest = shard.latest
         /\ Stored(ReplaceAll(shard, new)) = Stored(shard) \cup K
         /\ IndexAgrees(ReplaceAll(shard, new))
         /\ \A k \in Key : ReplaceAll(shard, new).entries[k] =
                             IF k \in K THEN new[k] ELSE shard.entries[k]
<1> DEFINE R == ReplaceAll(shard, new)
<1> DEFINE Old == {<<shard.entries[k].expires, k>> : k \in K}
<1> DEFINE New == {<<new[k].expires, k>> : k \in K}
<1>0. DOMAIN new = K
  OBVIOUS
<1>1. R = [latest |-> shard.latest,
           entries |-> [k \in Key |-> IF k \in K THEN new[k] ELSE shard.entries[k]],
           expirations |-> (shard.expirations \ Old) \cup New]
  BY <1>0 DEF ReplaceAll, WithContents
<1>2. \A k \in K : k \in Key /\ new[k] \in [value : Nat, expires : Nat \ {0}]
  OBVIOUS
<1>3. \A k \in K : new[k].expires \in Nat \ {0} /\ new[k] \in [value : Nat, expires : Nat]
                   /\ new[k] # Absent
  BY <1>2 DEF Absent
<1>4. R.entries = [k \in Key |-> IF k \in K THEN new[k] ELSE shard.entries[k]]
      /\ R.latest = shard.latest /\ R.expirations = (shard.expirations \ Old) \cup New
  BY <1>1
<1>5. R \in ShardType
  <2>1. [k \in Key |-> IF k \in K THEN new[k] ELSE shard.entries[k]] \in [Key -> [value : Nat, expires : Nat]]
    BY <1>3 DEF ShardType
  <2>2. New \in SUBSET (Nat \X Key)
    BY <1>2, <1>3
  <2>3. shard.latest \in Nat /\ (shard.expirations \ Old) \cup New \in SUBSET (Nat \X Key)
    BY <2>2 DEF ShardType
  <2> HIDE DEF R, Old, New
  <2> QED BY <1>1, <2>1, <2>3 DEF ShardType
<1> HIDE DEF R
<1>6. \A k \in Key : R.entries[k] = IF k \in K THEN new[k] ELSE shard.entries[k]
  BY <1>4
<1>7. Stored(R) = Stored(shard) \cup K
  BY <1>3, <1>6 DEF Stored
<1>8. IndexAgrees(R)
  <2>1. shard.expirations = {<<shard.entries[h].expires, h>> : h \in Stored(shard)}
    BY DEF IndexAgrees
  <2>2. ASSUME NEW h \in Stored(R)
        PROVE  <<R.entries[h].expires, h>> \in R.expirations
    <3>0. h \in Key
      BY DEF Stored
    <3>1. CASE h \in K
      BY <3>0, <3>1, <1>4, <1>6
    <3>2. CASE h \notin K
      <4>1. h \in Stored(shard) /\ R.entries[h] = shard.entries[h]
        BY <3>0, <3>2, <1>6, <1>7
      <4>2. <<shard.entries[h].expires, h>> \in shard.expirations
        BY <4>1, <2>1
      <4>3. <<shard.entries[h].expires, h>> \notin Old
        BY <3>2
      <4> QED BY <1>4, <4>1, <4>2, <4>3
    <3> QED BY <3>1, <3>2
  <2>3. ASSUME NEW e \in R.expirations
        PROVE  \E h \in Stored(R) : e = <<R.entries[h].expires, h>>
    <3>1. CASE e \in New
      <4>1. PICK h \in K : e = <<new[h].expires, h>>
        BY <3>1
      <4>2. h \in Stored(R) /\ R.entries[h] = new[h]
        BY <1>2, <1>6, <1>7
      <4> QED BY <4>1, <4>2
    <3>2. CASE e \in shard.expirations /\ e \notin Old
      <4>1. PICK h \in Stored(shard) : e = <<shard.entries[h].expires, h>>
        BY <2>1, <3>2
      <4>2. h \notin K /\ h \in Key
        BY <4>1, <3>2 DEF Stored
      <4>3. h \in Stored(R) /\ R.entries[h] = shard.entries[h]
        BY <4>1, <4>2, <1>6, <1>7
      <4> QED BY <4>1, <4>3
    <3> QED BY <1>4, <3>1, <3>2
  <2> QED BY <2>2, <2>3 DEF IndexAgrees
<1> QED BY <1>4, <1>5, <1>6, <1>7, <1>8 DEF R

----------------------------------------------------------------------------
(* The checks of a call                                                    *)

\* The check lists that reach the shards.
Runnable == {<<c>> : c \in Singles} \cup {b \in Batches : ~Invalid(b)}

Distinct(checks) == \A i, j \in DOMAIN checks : checks[i].key = checks[j].key => i = j

\* A call is a nonempty sequence of checks of known counters with costs their bursts can hold.
LEMMA CallFacts ==
  ASSUME NEW checks \in Runnable
  PROVE  /\ DOMAIN checks = 1..Len(checks) /\ Len(checks) \in Nat /\ Len(checks) > 0
         /\ DOMAIN checks \subseteq Nat /\ IsFiniteSet(DOMAIN checks)
         /\ \A j \in DOMAIN checks : checks[j].key \in Key /\ checks[j].cost \in Nat \ {0}
         /\ TouchedShards(checks) \subseteq ShardIndexes
<1>0. \A k \in Key : Policy[k].burst \in Nat
  BY GcraStoreAssumption DEF GcraPolicy
<1>1. /\ checks \in Seq(CheckType) /\ Len(checks) > 0
      /\ \A j \in DOMAIN checks : checks[j].cost \in 1..Policy[checks[j].key].burst
  <2>1. CASE checks \in {<<c>> : c \in Singles}
    <3>1. PICK c \in Singles : checks = <<c>>
      BY <2>1
    <3>2. c \in CheckType /\ c.cost \in 1..Policy[c.key].burst
      BY GcraStoreAssumption DEF ValidCost
    <3>3. Len(checks) = 1 /\ DOMAIN checks = {1} /\ checks[1] = c /\ checks \in Seq(CheckType)
      BY <3>1, <3>2
    <3> QED BY <3>2, <3>3
  <2>2. CASE checks \in Batches /\ ~Invalid(checks)
    <3>1. checks \in Seq(CheckType)
          /\ \A j \in DOMAIN checks : checks[j].cost \in 1..Policy[checks[j].key].burst
      BY <2>2, GcraStoreAssumption DEF ValidCost
    <3>2. Len(checks) \in Nat
      BY <3>1
    <3>3. Len(checks) # 0
      BY <2>2 DEF Invalid, ValidateBatch
    <3> QED BY <3>1, <3>2, <3>3
  <2> QED BY <2>1, <2>2 DEF Runnable
<1>2. DOMAIN checks = 1..Len(checks) /\ Len(checks) \in Nat
      /\ \A j \in DOMAIN checks : checks[j] \in CheckType
  <2> HIDE DEF CheckType
  <2> QED BY <1>1
<1>3. \A j \in DOMAIN checks : checks[j].key \in Key /\ checks[j].cost \in Nat
  BY <1>2 DEF CheckType
<1>4. \A j \in DOMAIN checks : checks[j].cost \in Nat \ {0}
  BY <1>0, <1>1, <1>3
<1>5. TouchedShards(checks) \subseteq ShardIndexes
  BY <1>3, ShardIndexInRange DEF TouchedShards
<1>6. IsFiniteSet(DOMAIN checks) /\ DOMAIN checks \subseteq Nat
  BY <1>2, FS_Interval
<1> QED BY <1>1, <1>2, <1>3, <1>4, <1>5, <1>6

\* Validation leaves no two checks of one counter.
LEMMA CallIsDistinct ==
  ASSUME NEW checks \in Runnable
  PROVE  Distinct(checks)
<1>1. DOMAIN checks = 1..Len(checks) /\ Len(checks) \in Nat
  BY CallFacts
<1>2. CASE checks \in {<<c>> : c \in Singles}
  <2>1. PICK c \in Singles : checks = <<c>>
    BY <1>2
  <2>2. DOMAIN checks = {1}
    BY <2>1
  <2> QED BY <2>2 DEF Distinct
<1>3. CASE checks \in Batches /\ ~Invalid(checks)
  <2> DEFINE bad == {i \in 1..Len(checks) : MixedModeAt(checks, i) \/ DuplicateAt(checks, i)}
  <2>1. ValidateBatch(checks, MaxBatchSize) = "Valid"
    BY <1>3 DEF Invalid
  <2>2. bad = {}
    <3> SUFFICES ASSUME bad # {} PROVE FALSE
      OBVIOUS
    <3>1. Len(checks) # 0 /\ ~(Len(checks) > MaxBatchSize)
      BY <1>1, <2>1, GcraStoreAssumption DEF ValidateBatch
    <3> QED BY <2>1, <3>1 DEF ValidateBatch
  <2>3. \A i \in DOMAIN checks : \A j \in 1..(i - 1) : checks[j].key # checks[i].key
    BY <1>1, <2>2 DEF DuplicateAt
  <2>4. ASSUME NEW i \in DOMAIN checks, NEW j \in DOMAIN checks, checks[i].key = checks[j].key PROVE i = j
    <3>1. i \in Nat /\ j \in Nat /\ i >= 1 /\ j >= 1
      BY <1>1
    <3>2. CASE i < j
      BY <2>3, <2>4, <3>1, <3>2
    <3>3. CASE j < i
      BY <2>3, <2>4, <3>1, <3>3
    <3> QED BY <3>1, <3>2, <3>3
  <2> QED BY <2>4 DEF Distinct
<1> QED BY <1>2, <1>3 DEF Runnable

\* The check that charges a key of the call is that one check.
LEMMA ChargingFact ==
  ASSUME NEW checks \in Runnable, NEW j \in DOMAIN checks
  PROVE  /\ checks[j].key \in KeysOf(checks) /\ Charging(checks, checks[j].key) = j
<1>1. checks[j].key \in KeysOf(checks)
  BY DEF KeysOf
<1>2. \A i \in DOMAIN checks : checks[i].key = checks[j].key => i = j
  BY CallIsDistinct DEF Distinct
<1> QED BY <1>1, <1>2 DEF Charging

\* The clamped time is at least the time of every shard the call touches.
LEMMA ClampedNowLemma ==
  ASSUME shards \in [ShardIndexes -> ShardType], NEW checks \in Runnable, NEW observed \in Time
  PROVE  /\ ClampedNow(checks, observed) \in Nat
         /\ \A i \in TouchedShards(checks) : shards[i].latest <= ClampedNow(checks, observed)
<1> DEFINE H == TouchedShards(checks)
           L == [i \in H |-> shards[i].latest]
           R == {L[i] : i \in H}
           S == {observed} \cup R
<1>1. observed \in Nat
  BY GcraStoreAssumption
<1>2. H \subseteq ShardIndexes
  BY CallFacts
<1>3. \A i \in H : shards[i].latest \in Nat
  BY <1>2 DEF ShardType
<1>4. IsFiniteSet(H)
  <2>1. IsFiniteSet(ShardIndexes)
    BY ShardsAssumption, FS_Interval DEF ShardIndexes
  <2> QED BY <1>2, <2>1, FS_Subset
<1> HIDE DEF H
<1>5. IsFiniteSet(R)
  <2>1. L \in [H -> Nat]
    BY <1>3
  <2> HIDE DEF L
  <2> QED BY <2>1, <1>4, ImageBound
<1>6. S \in SUBSET Nat /\ S # {} /\ IsFiniteSet(S)
  <2>1. IsFiniteSet(R \cup {observed})
    BY <1>5, FS_AddElement
  <2>2. S = R \cup {observed}
    OBVIOUS
  <2> QED BY <1>1, <1>3, <2>1, <2>2
<1>7. S = {observed} \cup {shards[i].latest : i \in H}
  OBVIOUS
<1>8. Max(S) \in S /\ \A y \in S : y <= Max(S)
  BY <1>6, MaxOfFinite
<1>9. ClampedNow(checks, observed) = Max(S)
  BY <1>7 DEF ClampedNow, H
<1> HIDE DEF S
<1>10. \A i \in H : shards[i].latest \in S
  BY <1>7
<1> QED BY <1>6, <1>8, <1>9, <1>10 DEF H

----------------------------------------------------------------------------
(* The inductive invariant                                                 *)

\* What holds of one shard: it is well typed, indexed and within its share, and no
\* arrival time lies beyond its own expiry, which is what lets an expired entry count as
\* missing and be pruned.
ShardOK(shard, i) ==
    /\ shard \in ShardType
    /\ IndexAgrees(shard)
    /\ Used(shard) <= ShardCapacity(i)
    /\ \A k \in Key : shard.entries[k].value <= shard.entries[k].expires * Policy[k].quota

GoodShards(s) == s \in [ShardIndexes -> ShardType] /\ \A i \in ShardIndexes : ShardOK(s[i], i)

Inv == GoodShards(shards) /\ poisoned \subseteq ShardIndexes

\* Policies are made of positive numbers.
LEMMA PolicyFacts ==
  ASSUME NEW k \in Key
  PROVE  /\ Policy[k] \in GcraPolicy
         /\ Policy[k].quota \in Nat \ {0} /\ Policy[k].period \in Nat \ {0} /\ Policy[k].burst \in Nat \ {0}
BY GcraStoreAssumption DEF GcraPolicy

\* A shard of an invariant state.
LEMMA ShardFacts ==
  ASSUME NEW s, GoodShards(s), NEW i \in ShardIndexes
  PROVE  /\ s[i] \in ShardType /\ IndexAgrees(s[i]) /\ Used(s[i]) <= ShardCapacity(i)
         /\ s[i].latest \in Nat
         /\ \A k \in Key : /\ s[i].entries[k].value \in Nat /\ s[i].entries[k].expires \in Nat
                           /\ s[i].entries[k].value <= s[i].entries[k].expires * Policy[k].quota
<1>1. ShardOK(s[i], i)
  BY DEF GoodShards
<1>2. s[i] \in ShardType
  BY <1>1 DEF ShardOK
<1>3. s[i].latest \in Nat /\ \A k \in Key : s[i].entries[k].value \in Nat /\ s[i].entries[k].expires \in Nat
  BY <1>2 DEF ShardType
<1> QED BY <1>1, <1>2, <1>3 DEF ShardOK

\* An empty shard, new or cleared, is in order.
LEMMA EmptiedOK ==
  ASSUME NEW shard \in ShardType, NEW i \in ShardIndexes, Stored(shard) = {}, IndexAgrees(shard)
  PROVE  ShardOK(shard, i)
<1>1. Used(shard) = 0
  BY FS_EmptySet DEF Used
<1>2. \A k \in Key : shard.entries[k].value <= shard.entries[k].expires * Policy[k].quota
  <2> SUFFICES ASSUME NEW k \in Key
               PROVE  shard.entries[k].value <= shard.entries[k].expires * Policy[k].quota
    OBVIOUS
  <2>1. shard.entries[k].value = 0 /\ shard.entries[k].expires = 0
    BY DEF Stored, Absent
  <2>2. 0 * Policy[k].quota = 0
    BY PolicyFacts
  <2> QED BY <2>1, <2>2
<1> QED BY <1>1, <1>2, ShardCapacityType DEF ShardOK

\* What recording the time and pruning (record_observed_millis, prune_expired) leave of a
\* shard: a touched shard has the new time and may have lost entries that had expired by it.
RefreshedFrom(s, r, touched, at) ==
    \A i \in ShardIndexes :
        /\ r[i].latest = IF i \in touched THEN at ELSE s[i].latest
        /\ \A k \in Key :
             \/ r[i].entries[k] = s[i].entries[k]
             \/ i \in touched /\ r[i].entries[k] = Absent /\ s[i].entries[k].expires <= at

\* Recording the time and pruning keep every shard in order.
LEMMA RefreshedLemma ==
  ASSUME GoodShards(shards), NEW checks, NEW at \in Nat
  PROVE  /\ GoodShards(Refreshed(checks, at))
         /\ RefreshedFrom(shards, Refreshed(checks, at), TouchedShards(checks), at)
<1> DEFINE r == Refreshed(checks, at)
<1>1. ASSUME NEW i \in ShardIndexes
      PROVE  /\ r[i] \in ShardType /\ ShardOK(r[i], i)
             /\ r[i].latest = IF i \in TouchedShards(checks) THEN at ELSE shards[i].latest
             /\ \A k \in Key :
                   \/ r[i].entries[k] = shards[i].entries[k]
                   \/ /\ i \in TouchedShards(checks) /\ r[i].entries[k] = Absent
                      /\ shards[i].entries[k].expires <= at
  <2>1. shards[i] \in ShardType /\ IndexAgrees(shards[i]) /\ ShardOK(shards[i], i)
    BY ShardFacts DEF GoodShards
  <2>2. CASE i \notin TouchedShards(checks)
    BY <2>1, <2>2 DEF Refreshed
  <2>3. CASE i \in TouchedShards(checks)
    <3> DEFINE o == RecordObserved(shards[i], at)
               l == MaxRemovals * CheckCount(checks, i)
    <3>1. r[i] = PruneExpired(o, at, l)
      BY <2>3 DEF Refreshed
    <3>2. o \in ShardType /\ IndexAgrees(o) /\ Stored(o) = Stored(shards[i]) /\ o.latest = at
          /\ o.entries = shards[i].entries
      BY <2>1, RecordObservedLemma DEF RecordObserved
    <3> HIDE DEF o, l, r
    <3>3. /\ r[i] \in ShardType /\ r[i].latest = at /\ IndexAgrees(r[i])
          /\ Stored(r[i]) \subseteq Stored(shards[i])
          /\ \A k \in Key : r[i].entries[k] = shards[i].entries[k]
                            \/ (r[i].entries[k] = Absent /\ shards[i].entries[k].expires <= at)
      BY <3>1, <3>2, PruneLemma
    <3>4. Used(r[i]) <= ShardCapacity(i)
      <4>1. Cardinality(Stored(r[i])) <= Cardinality(Stored(shards[i]))
        BY <3>3, StoredFinite, FS_Subset
      <4>2. Used(r[i]) \in Nat /\ Used(shards[i]) \in Nat /\ ShardCapacity(i) \in Nat
        BY StoredFinite, ShardCapacityType
      <4>3. Used(shards[i]) <= ShardCapacity(i)
        BY <2>1 DEF ShardOK
      <4> QED BY <4>1, <4>2, <4>3 DEF Used
    <3>5. ASSUME NEW k \in Key PROVE r[i].entries[k].value <= r[i].entries[k].expires * Policy[k].quota
      <4>1. CASE r[i].entries[k] = shards[i].entries[k]
        BY <2>1, <4>1 DEF ShardOK
      <4>2. CASE r[i].entries[k] = Absent
        <5>1. r[i].entries[k].value = 0 /\ r[i].entries[k].expires = 0 /\ 0 * Policy[k].quota = 0
          BY <4>2, PolicyFacts DEF Absent
        <5> QED BY <5>1
      <4> QED BY <3>3, <4>1, <4>2
    <3> QED BY <2>3, <3>3, <3>4, <3>5 DEF ShardOK
  <2> QED BY <2>2, <2>3
<1>2. r = [i \in ShardIndexes |-> r[i]]
  BY DEF Refreshed
<1> HIDE DEF r
<1>3. r \in [ShardIndexes -> ShardType]
  BY <1>1, <1>2
<1> QED BY <1>1, <1>3 DEF GoodShards, RefreshedFrom, r

\* An accepted batch fits: when no check of the call found its shard full, counting the
\* insertions before it, storing all of them together stays within the shard's share.
LEMMA RoomLemma ==
  ASSUME NEW s \in [ShardIndexes -> ShardType], NEW checks \in Runnable,
         \A j \in DOMAIN checks : ~NoRoomFor(s, checks, j),
         NEW i \in ShardIndexes, Used(s[i]) <= ShardCapacity(i)
  PROVE  Cardinality(Stored(s[i]) \cup {k \in KeysOf(checks) : ShardIndex(k) = i}) <= ShardCapacity(i)
<1> DEFINE D == DOMAIN checks
           K == {k \in KeysOf(checks) : ShardIndex(k) = i}
           M == {j \in D : ShardIndex(checks[j].key) = i /\ ~ContainsKey(s[i], checks[j].key)}
           f == [j \in M |-> checks[j].key]
           N == {f[j] : j \in M}
<1>1. D = 1..Len(checks) /\ Len(checks) \in Nat /\ D \subseteq Nat /\ IsFiniteSet(D)
  BY CallFacts
<1>2. \A j \in D : checks[j].key \in Key
  BY CallFacts
<1>3. IsFiniteSet(M) /\ M \in SUBSET Nat
  BY <1>1, FS_Subset
<1>4. Stored(s[i]) \cup K = Stored(s[i]) \cup N
  <2>1. ASSUME NEW k \in K PROVE k \in Stored(s[i]) \cup N
    <3>1. PICK j \in D : checks[j].key = k /\ ShardIndex(k) = i
      BY DEF KeysOf
    <3>2. CASE j \in M
      BY <3>1, <3>2
    <3>3. CASE j \notin M
      BY <3>1, <3>3 DEF ContainsKey
    <3> QED BY <3>2, <3>3
  <2>2. N \subseteq K
    BY <1>2 DEF KeysOf
  <2> QED BY <2>1, <2>2
<1>5. IsFiniteSet(N) /\ Cardinality(N) <= Cardinality(M)
  <2>1. f \in [M -> Key]
    BY <1>2
  <2> HIDE DEF f, M
  <2> QED BY <2>1, <1>3, ImageBound
<1>6. IsFiniteSet(Stored(s[i])) /\ Used(s[i]) \in Nat /\ Used(s[i]) = Cardinality(Stored(s[i]))
  BY StoredFinite DEF Used
<1>7. Cardinality(Stored(s[i]) \cup N) <= Used(s[i]) + Cardinality(M)
  <2>1. Cardinality(Stored(s[i]) \cup N) =
          Cardinality(Stored(s[i])) + Cardinality(N) - Cardinality(Stored(s[i]) \cap N)
    BY <1>5, <1>6, FS_Union
  <2>2. Cardinality(Stored(s[i]) \cap N) \in Nat /\ Cardinality(N) \in Nat
    <3>1. IsFiniteSet(Stored(s[i]) \cap N)
      BY <1>5, FS_Subset
    <3> QED BY <1>5, <3>1, FS_CardinalityType
  <2>3. Cardinality(M) \in Nat
    BY <1>3, FS_CardinalityType
  <2> HIDE DEF M, N
  <2> QED BY <1>5, <1>6, <2>1, <2>2, <2>3
<1>8. Used(s[i]) + Cardinality(M) <= ShardCapacity(i)
  <2>1. CASE M = {}
    <3>1. Cardinality(M) = 0
      BY <2>1, FS_EmptySet
    <3> HIDE DEF M
    <3> QED BY <1>6, <3>1, ShardCapacityType
  <2>2. CASE M # {}
    <3>1. PICK m \in M : \A j \in M : j <= m
      BY <1>3, <2>2, MaxOfFinite
    <3> DEFINE L == {h \in 1..m : ShardIndex(checks[h].key) = i /\ ~ContainsKey(s[i], checks[h].key)}
    <3>2. m \in D /\ m \in Nat /\ ShardIndex(checks[m].key) = i
      BY <1>1, <3>1
    <3>3. L = M
      <4>1. ASSUME NEW h \in L PROVE h \in M
        <5>1. h \in Nat /\ 1 <= h /\ h <= m
          BY <3>2
        <5>2. h \in D
          BY <1>1, <3>2, <5>1
        <5> QED BY <5>2
      <4>2. ASSUME NEW h \in M PROVE h \in L
        <5>1. h \in Nat /\ h <= m /\ 1 <= h
          BY <1>1, <3>1
        <5>2. h \in 1..m
          BY <3>2, <5>1
        <5> QED BY <5>2
      <4> QED BY <4>1, <4>2
    <3>4. Cardinality(L \ {m}) = Cardinality(M) - 1
      <4> HIDE DEF L, M
      <4> QED BY <1>3, <3>1, <3>3, FS_RemoveElement
    <3>5. ~(Used(s[i]) + Cardinality(L \ {m}) >= ShardCapacity(i))
      <4>1. NoRoomFor(s, checks, m) <=> m \in L /\ Used(s[i]) + Cardinality(L \ {m}) >= ShardCapacity(i)
        BY <3>2 DEF NoRoomFor
      <4> QED BY <3>1, <3>2, <3>3, <4>1
    <3>6. Cardinality(M) \in Nat
      BY <1>3, FS_CardinalityType
    <3> HIDE DEF L, M
    <3> QED BY <1>6, <3>4, <3>5, <3>6, ShardCapacityType
  <2> QED BY <2>1, <2>2
<1>9. Cardinality(Stored(s[i]) \cup N) \in Nat /\ Cardinality(M) \in Nat
  <2>1. IsFiniteSet(Stored(s[i]) \cup N)
    BY <1>5, <1>6, FS_Union
  <2> QED BY <1>3, <2>1, FS_CardinalityType
<1>10. Cardinality(Stored(s[i]) \cup K) <= ShardCapacity(i)
  <2>1. Cardinality(Stored(s[i]) \cup N) <= ShardCapacity(i)
    <3> HIDE DEF M, N
    <3> QED BY <1>6, <1>7, <1>8, <1>9, ShardCapacityType
  <2> QED BY <1>4, <2>1
<1> QED BY <1>10

----------------------------------------------------------------------------
(* Evaluation                                                              *)

\* How far a charge would go beyond the burst.
Over(p, cost, now, tat) ==
    (AtLeast(tat, now * p.quota) + cost * p.period) - (now * p.quota + p.burst * p.period)

\* GcraEvaluate (runlimit-core/src/gcra.rs): one of three results; an allowance leaves an
\* arrival time within the burst and an expiry not before it.
LEMMA Evaluation ==
  ASSUME NEW p \in GcraPolicy, NEW cost \in Nat \ {0}, NEW now \in Nat, NEW tat \in Nat,
         NEW r, r = GcraEvaluate(p, cost, now, tat)
  PROVE  /\ r.kind \in {"allowed", "denied", "overflow"}
         /\ r.kind = "allowed" =>
              /\ r.allowance.tat = AtLeast(tat, now * p.quota) + cost * p.period
              /\ r.allowance.tat <= now * p.quota + p.burst * p.period
              /\ r.allowance.expires \in Nat \ {0}
              /\ r.allowance.tat <= r.allowance.expires * p.quota
              /\ r.allowance.available = ((now * p.quota + p.burst * p.period) - r.allowance.tat) \div p.period
         /\ r.kind = "denied" =>
              Over(p, cost, now, tat) > 0 /\ r.retry = DivCeil(Over(p, cost, now, tat), p.quota)
<1> DEFINE a == now * p.quota
<1> DEFINE b == cost * p.period
<1> DEFINE c == p.burst * p.period
<1> DEFINE q == p.quota
<1>1. p.quota \in Nat \ {0} /\ p.period \in Nat \ {0} /\ p.burst \in Nat \ {0}
  BY DEF GcraPolicy
<1>2. a \in Nat /\ b \in Nat \ {0} /\ c \in Nat /\ q \in Nat \ {0}
  BY <1>1
<1> DEFINE candidate == AtLeast(tat, a) + b
<1> DEFINE over == candidate - (a + c)
<1> DEFINE retry == DivCeil(over, q)
<1> DEFINE replenish == DivCeil(candidate - a, q)
<1> DEFINE available == ((a + c) - candidate) \div p.period
<1>3. r = CASE candidate > WideMax \/ a + c > WideMax -> Overflow
            [] candidate <= WideMax /\ a + c <= WideMax /\ candidate > a + c ->
                 IF retry > DelayMax THEN Overflow ELSE Result("denied", NoAllowance, retry)
            [] OTHER ->
                 IF now + replenish > WideMax \/ replenish > DelayMax \/ available > DelayMax
                 THEN Overflow
                 ELSE Result("allowed",
                             [tat |-> candidate, expires |-> now + replenish,
                              available |-> available], 0)
  BY DEF GcraEvaluate, Ceiling, Excess
<1>4. candidate \in Nat \ {0} /\ candidate >= a /\ candidate - a \in Nat
  BY <1>2 DEF AtLeast
<1>5. now + replenish \in Nat \ {0} /\ candidate <= (now + replenish) * q
  <2> HIDE DEF candidate
  <2>1. replenish \in Nat /\ candidate - a <= replenish * q
    BY <1>2, <1>4, CeilingDivision DEF DivCeil
  <2> HIDE DEF replenish, q
  <2>2. (now + replenish) * q = now * q + replenish * q /\ now * q \in Nat /\ replenish * q \in Nat
    BY <1>2, <2>1
  <2>3. now * q = a
    BY DEF q
  <2>4. candidate <= (now + replenish) * q
    BY <1>2, <1>4, <2>1, <2>2, <2>3
  <2>5. now + replenish = 0 => (now + replenish) * q = 0
    BY <1>2
  <2> QED BY <1>4, <2>1, <2>4, <2>5
<1>7. \/ r = Overflow
      \/ candidate > a + c /\ r = Result("denied", NoAllowance, retry)
      \/ /\ candidate <= a + c
         /\ r = Result("allowed", [tat |-> candidate, expires |-> now + replenish,
                                   available |-> available], 0)
  <2> HIDE DEF candidate, retry, replenish, available, a, c
  <2>1. CASE candidate > WideMax \/ a + c > WideMax
    BY <1>2, <1>3, <1>4, <2>1, GcraAssumption
  <2>2. CASE ~(candidate > WideMax \/ a + c > WideMax) /\ candidate > a + c
    <3>1. candidate <= WideMax /\ a + c <= WideMax
      BY <1>2, <1>4, <2>2, GcraAssumption
    <3> QED BY <1>3, <2>2, <3>1
  <2>3. CASE ~(candidate > WideMax \/ a + c > WideMax) /\ ~(candidate > a + c)
    <3>1. candidate <= WideMax /\ candidate <= a + c
      BY <1>2, <1>4, <2>3, GcraAssumption
    <3> QED BY <1>3, <2>3, <3>1
  <2> QED BY <2>1, <2>2, <2>3
<1> HIDE DEF candidate, retry, replenish, available, a, c, q, over
<1>8. CASE r = Overflow
  BY <1>8 DEF Overflow, Result
<1>9. CASE candidate > a + c /\ r = Result("denied", NoAllowance, retry)
  <2>1. r.kind = "denied" /\ r.retry = retry
    BY <1>9 DEF Result
  <2>2. over > 0
    BY <1>2, <1>4, <1>9 DEF over
  <2>3. over = Over(p, cost, now, tat)
    BY DEF over, candidate, a, b, c, Over
  <2>4. r.kind # "allowed" /\ r.kind \in {"allowed", "denied", "overflow"}
    BY <2>1
  <2> QED BY <2>1, <2>2, <2>3, <2>4 DEF retry, q
<1>10. CASE /\ candidate <= a + c
            /\ r = Result("allowed", [tat |-> candidate, expires |-> now + replenish,
                                      available |-> available], 0)
  <2>1. /\ r.kind = "allowed" /\ r.allowance.tat = candidate /\ r.allowance.expires = now + replenish
        /\ r.allowance.available = available
    BY <1>10 DEF Result
  <2>2. r.allowance.available = ((a + c) - r.allowance.tat) \div p.period
    BY <2>1 DEF available
  <2>3. r.allowance.expires \in Nat \ {0} /\ r.allowance.tat <= r.allowance.expires * q
    BY <1>5, <2>1
  <2> QED BY <1>10, <2>1, <2>2, <2>3 DEF candidate, a, c, q
<1> QED BY <1>7, <1>8, <1>9, <1>10

\* Rounding up gives the least delay that covers what is over.
LEMMA LeastDelay ==
  ASSUME NEW over \in Nat, over > 0, NEW q \in Nat \ {0}, NEW d, d = DivCeil(over, q)
  PROVE  /\ d \in Nat /\ d > 0 /\ d * q \in Nat /\ (d - 1) * q \in Nat
         /\ over <= d * q /\ over > (d - 1) * q
<1>1. d \in Nat /\ d > 0 /\ \A n \in Nat : d <= n <=> over <= n * q
  BY CeilingDivision DEF DivCeil
<1>2. d - 1 \in Nat /\ ~(d <= d - 1)
  BY <1>1
<1>3. d * q \in Nat /\ (d - 1) * q \in Nat
  BY <1>1, <1>2
<1> QED BY <1>1, <1>2, <1>3

----------------------------------------------------------------------------
(* Arrival times and debts                                                 *)

\* What is left of an amount when another is taken off.
Left(x, y) == IF x > y THEN x - y ELSE 0

\* Draining in two steps is draining once.
LEMMA DrainTwice ==
  ASSUME NEW x \in Nat, NEW m \in Nat, NEW n \in Nat, NEW q \in Nat, m <= n
  PROVE  Left(Left(x, m * q), (n - m) * q) = Left(x, n * q)
<1> DEFINE a == m * q
<1> DEFINE b == n * q
<1> DEFINE d == (n - m) * q
<1>1. a \in Nat /\ b \in Nat /\ a <= b
  BY TimesMonotone
<1>2. d = b - a
  OBVIOUS
<1> HIDE DEF a, b, d
<1>3. Left(Left(x, a), d) = Left(x, b)
  BY <1>1, <1>2 DEF Left
<1> QED BY <1>3 DEF a, b, d

\* The debt of a counter at an instant, from the entry stored for it.
Level(k, entry, at) == Left(entry.value, at * Policy[k].quota)

EntryOf(s, k) == s[ShardIndex(k)].entries[k]

TimeOf(s, k) == s[ShardIndex(k)].latest

\* The abstract bucket, from the shards.
LEMMA BucketFacts ==
  ASSUME GoodShards(shards), NEW k \in Key
  PROVE  /\ EntryOf(shards, k).value \in Nat /\ EntryOf(shards, k).expires \in Nat
         /\ EntryOf(shards, k).value <= EntryOf(shards, k).expires * Policy[k].quota
         /\ TimeOf(shards, k) \in Nat
         /\ Debt(k) = Level(k, EntryOf(shards, k), TimeOf(shards, k)) /\ Debt(k) \in Nat
<1>1. ShardIndex(k) \in ShardIndexes
  BY ShardIndexInRange
<1>2. /\ EntryOf(shards, k).value \in Nat /\ EntryOf(shards, k).expires \in Nat
      /\ EntryOf(shards, k).value <= EntryOf(shards, k).expires * Policy[k].quota
      /\ TimeOf(shards, k) \in Nat
  BY <1>1, ShardFacts DEF EntryOf, TimeOf
<1>3. Debt(k) = Level(k, EntryOf(shards, k), TimeOf(shards, k))
  BY DEF Debt, EntryOf, TimeOf, Level, Left
<1>4. TimeOf(shards, k) * Policy[k].quota \in Nat
  BY <1>2, PolicyFacts
<1>5. Level(k, EntryOf(shards, k), TimeOf(shards, k)) \in Nat
  BY <1>2, <1>4 DEF Level, Left
<1> QED BY <1>2, <1>3, <1>5

\* The abstract bucket at a later instant is the level of the stored arrival time then.
LEMMA DrainedFact ==
  ASSUME GoodShards(shards), NEW k \in Key, NEW n \in Nat, TimeOf(shards, k) <= n
  PROVE  /\ Abstract!Drained(k, n) = Level(k, EntryOf(shards, k), n)
         /\ Abstract!Drained(k, n) \in Nat
<1>1. PICK m \in Nat : m = TimeOf(shards, k)
  BY BucketFacts
<1>2. PICK x \in Nat : x = EntryOf(shards, k).value
  BY BucketFacts
<1>3. PICK q \in Nat : q = Policy[k].quota
  BY PolicyFacts
<1>4. Debt(k) = Left(x, m * q)
  BY <1>1, <1>2, <1>3, BucketFacts DEF Level
<1>5. Abstract!Drained(k, n) = Left(Debt(k), (n - m) * q)
  BY <1>1, <1>3 DEF Abstract!Drained, Left, TimeOf
<1>6. Left(Left(x, m * q), (n - m) * q) = Left(x, n * q)
  <2>1. m <= n
    BY <1>1
  <2> QED BY <2>1, DrainTwice
<1>7. Left(x, n * q) \in Nat
  <2>1. n * q \in Nat
    OBVIOUS
  <2> QED BY <2>1 DEF Left
<1> QED BY <1>2, <1>3, <1>4, <1>5, <1>6, <1>7 DEF Level

\* An entry that has expired has no debt left, so treating it as missing loses nothing.
LEMMA ExpiredIsDrained ==
  ASSUME GoodShards(shards), NEW k \in Key, NEW n \in Nat, EntryOf(shards, k).expires <= n
  PROVE  EntryOf(shards, k).value <= n * Policy[k].quota
<1>1. PICK x \in Nat : x = EntryOf(shards, k).value
  BY BucketFacts
<1>2. PICK e \in Nat : e = EntryOf(shards, k).expires
  BY BucketFacts
<1>3. PICK q \in Nat : q = Policy[k].quota
  BY PolicyFacts
<1>4. x <= e * q /\ e <= n
  BY <1>1, <1>2, <1>3, BucketFacts
<1>5. e * q \in Nat /\ n * q \in Nat /\ e * q <= n * q
  BY <1>4, TimesMonotone
<1>6. x <= n * q
  BY <1>4, <1>5
<1> QED BY <1>1, <1>3, <1>6

\* What Shard::evaluate decides, in terms of the abstract bucket.
Answers(c, at, e) ==
    /\ e.kind \in {"allowed", "denied", "overflow"}
    /\ e.kind = "allowed" =>
        /\ Abstract!Fits(c, at)
        /\ e.allowance.tat = at * Policy[c.key].quota + Abstract!After(c, at)
        /\ e.allowance.tat \in Nat /\ e.allowance.expires \in Nat \ {0}
        /\ e.allowance.tat <= e.allowance.expires * Policy[c.key].quota
        /\ e.allowance.available = (Abstract!Brim(c.key) - Abstract!After(c, at)) \div Policy[c.key].period
    /\ e.kind = "denied" =>
        /\ ~Abstract!Fits(c, at)
        /\ e.retry \in Nat /\ e.retry > 0
        /\ Abstract!After(c, at) <= Abstract!Brim(c.key) + e.retry * Policy[c.key].quota
        /\ Abstract!After(c, at) > Abstract!Brim(c.key) + (e.retry - 1) * Policy[c.key].quota

\* Evaluating a check at or after its shard's time answers for the abstract bucket.
LEMMA EvaluateFacts ==
  ASSUME GoodShards(shards), NEW c, c.key \in Key, c.cost \in Nat \ {0}, NEW at \in Nat,
         TimeOf(shards, c.key) <= at
  PROVE  /\ Answers(c, at, EvaluateCheck(c, at))
         /\ Abstract!After(c, at) \in Nat /\ Abstract!Brim(c.key) \in Nat
<1>1. PICK k \in Key : k = c.key
  OBVIOUS
<1>2. PICK p \in GcraPolicy : p = Policy[k]
  BY PolicyFacts
<1>3. p.quota \in Nat \ {0} /\ p.period \in Nat \ {0} /\ p.burst \in Nat \ {0}
  BY DEF GcraPolicy
<1>4. PICK x \in Nat : x = EntryOf(shards, k).value
  BY BucketFacts
<1>5. PICK tat \in Nat : tat = IF EntryOf(shards, k).expires > at THEN x ELSE 0
  OBVIOUS
<1>6. PICK a \in Nat : a = at * p.quota
  BY <1>3
<1>7. PICK b \in Nat : b = c.cost * p.period
  BY <1>3
<1>8. PICK d \in Nat : d = p.burst * p.period
  BY <1>3
<1>9. PICK e : e = EvaluateCheck(c, at)
  OBVIOUS
<1>10. e = GcraEvaluate(p, c.cost, at, tat)
  BY <1>1, <1>2, <1>4, <1>5, <1>9 DEF EvaluateCheck, EntryOf, ActiveEntry
<1>11. AtLeast(tat, a) = a + Left(x, a)
  <2>1. EntryOf(shards, k).expires \in Nat
    BY BucketFacts
  <2>2. ~(EntryOf(shards, k).expires > at) => x <= a
    BY <1>2, <1>4, <1>6, <2>1, ExpiredIsDrained
  <2> QED BY <1>5, <2>2 DEF AtLeast, Left
<1>12. Left(x, a) \in Nat /\ Abstract!Drained(k, at) = Left(x, a)
  <2>1. Level(k, EntryOf(shards, k), at) = Left(x, a)
    BY <1>2, <1>4, <1>6 DEF Level
  <2> QED BY <1>1, <2>1, DrainedFact
<1>13. Abstract!After(c, at) = Left(x, a) + b /\ Abstract!Brim(c.key) = d
  BY <1>1, <1>2, <1>7, <1>8, <1>12 DEF Abstract!After, Abstract!Brim
<1>14. Abstract!Fits(c, at) <=> Left(x, a) + b <= d
  BY <1>13 DEF Abstract!Fits
<1>15. /\ e.kind \in {"allowed", "denied", "overflow"}
       /\ e.kind = "allowed" =>
              /\ e.allowance.tat = AtLeast(tat, a) + b
              /\ e.allowance.tat <= a + d
              /\ e.allowance.expires \in Nat \ {0}
              /\ e.allowance.tat <= e.allowance.expires * p.quota
              /\ e.allowance.available = ((a + d) - e.allowance.tat) \div p.period
       /\ e.kind = "denied" =>
              /\ (AtLeast(tat, a) + b) - (a + d) > 0
              /\ e.retry = DivCeil((AtLeast(tat, a) + b) - (a + d), p.quota)
  <2>1. /\ e.kind \in {"allowed", "denied", "overflow"}
        /\ e.kind = "allowed" =>
              /\ e.allowance.tat = AtLeast(tat, at * p.quota) + c.cost * p.period
              /\ e.allowance.tat <= at * p.quota + p.burst * p.period
              /\ e.allowance.expires \in Nat \ {0}
              /\ e.allowance.tat <= e.allowance.expires * p.quota
              /\ e.allowance.available = ((at * p.quota + p.burst * p.period) - e.allowance.tat) \div p.period
        /\ e.kind = "denied" =>
              Over(p, c.cost, at, tat) > 0 /\ e.retry = DivCeil(Over(p, c.cost, at, tat), p.quota)
    BY <1>10, Evaluation
  <2>2. Over(p, c.cost, at, tat) = (AtLeast(tat, a) + b) - (a + d)
    BY <1>6, <1>7, <1>8 DEF Over
  <2> QED BY <1>6, <1>7, <1>8, <2>1, <2>2
<1>16. CASE e.kind = "allowed"
  <2>1. e.allowance.tat = a + (Left(x, a) + b) /\ Left(x, a) + b <= d
    BY <1>11, <1>12, <1>15, <1>16
  <2>2. (a + d) - e.allowance.tat = d - (Left(x, a) + b)
    BY <1>12, <2>1
  <2>3. e.allowance.tat \in Nat
    BY <1>12, <2>1
  <2>4. e.allowance.available = (d - (Left(x, a) + b)) \div p.period
    BY <1>15, <1>16, <2>2
  <2>5. e.kind # "denied"
    BY <1>16
  <2> QED BY <1>1, <1>2, <1>6, <1>9, <1>12, <1>13, <1>14, <1>15, <1>16, <2>1, <2>3, <2>4, <2>5 DEF Answers
<1>17. CASE e.kind = "denied"
  <2>1. PICK over \in Nat : over = (Left(x, a) + b) - d /\ over > 0
    BY <1>11, <1>12, <1>15, <1>17
  <2>2. (AtLeast(tat, a) + b) - (a + d) = over
    BY <1>11, <1>12, <2>1
  <2>3. e.retry = DivCeil(over, p.quota)
    BY <1>15, <1>17, <2>2
  <2>4. /\ e.retry \in Nat /\ e.retry > 0 /\ e.retry * p.quota \in Nat /\ (e.retry - 1) * p.quota \in Nat
        /\ over <= e.retry * p.quota /\ over > (e.retry - 1) * p.quota
    BY <1>3, <2>1, <2>3, LeastDelay
  <2>5. ~(Left(x, a) + b <= d) /\ Left(x, a) + b <= d + e.retry * p.quota
        /\ Left(x, a) + b > d + (e.retry - 1) * p.quota
    BY <1>12, <2>1, <2>4
  <2>6. e.kind # "allowed"
    BY <1>17
  <2> QED BY <1>1, <1>2, <1>9, <1>12, <1>13, <1>14, <1>15, <2>4, <2>5, <2>6 DEF Answers
<1>18. CASE e.kind = "overflow"
  BY <1>1, <1>9, <1>12, <1>13, <1>18 DEF Answers
<1> QED BY <1>9, <1>12, <1>13, <1>15, <1>16, <1>17, <1>18

----------------------------------------------------------------------------
(* What a call does to the shards                                          *)

Evaluations(checks, at) == [j \in DOMAIN checks |-> EvaluateCheck(checks[j], at)]

\* The time of a call: not before that of any shard it touches.
CallTime(checks, at) == at \in Nat /\ \A i \in TouchedShards(checks) : shards[i].latest <= at

\* Nothing is stored for a key outside the call, and each key of the call gets the entry
\* of its check.
ChargedFrom(r, s, checks, at) ==
    /\ \A i \in ShardIndexes : s[i].latest = r[i].latest
    /\ \A k \in Key \ KeysOf(checks) : EntryOf(s, k) = EntryOf(r, k)
    /\ \A j \in DOMAIN checks :
         EntryOf(s, checks[j].key).value = EvaluateCheck(checks[j], at).allowance.tat

\* Every check of a call is evaluated against the abstract bucket.
LEMMA CallAnswers ==
  ASSUME GoodShards(shards), NEW checks \in Runnable, NEW at, CallTime(checks, at),
         NEW j \in DOMAIN checks
  PROVE  /\ checks[j].key \in Key /\ TimeOf(shards, checks[j].key) <= at
         /\ Answers(checks[j], at, EvaluateCheck(checks[j], at))
         /\ Abstract!After(checks[j], at) \in Nat /\ Abstract!Brim(checks[j].key) \in Nat
         /\ Evaluations(checks, at)[j] = EvaluateCheck(checks[j], at)
<1>1. checks[j].key \in Key /\ checks[j].cost \in Nat \ {0}
  BY CallFacts
<1>2. ShardIndex(checks[j].key) \in TouchedShards(checks)
  BY DEF TouchedShards
<1>3. TimeOf(shards, checks[j].key) <= at /\ at \in Nat
  BY <1>2 DEF CallTime, TimeOf
<1>4. Evaluations(checks, at)[j] = EvaluateCheck(checks[j], at)
  BY DEF Evaluations
<1> QED BY <1>1, <1>3, <1>4, EvaluateFacts

\* A shard that is refreshed ages its buckets: their debts drain and nothing else happens.
LEMMA RefreshedAges ==
  ASSUME GoodShards(shards), NEW checks, NEW at, CallTime(checks, at), NEW r,
         RefreshedFrom(shards, r, TouchedShards(checks), at), NEW k \in Key
  PROVE  /\ TimeOf(r, k) \in Nat /\ TimeOf(r, k) >= TimeOf(shards, k)
         /\ Level(k, EntryOf(r, k), TimeOf(r, k)) = Abstract!Drained(k, TimeOf(r, k))
         /\ ShardIndex(k) \in TouchedShards(checks) => TimeOf(r, k) = at
<1>1. ShardIndex(k) \in ShardIndexes
  BY ShardIndexInRange
<1>2. /\ TimeOf(r, k) = IF ShardIndex(k) \in TouchedShards(checks) THEN at ELSE TimeOf(shards, k)
      /\ \/ EntryOf(r, k) = EntryOf(shards, k)
         \/ /\ ShardIndex(k) \in TouchedShards(checks) /\ EntryOf(r, k) = Absent
            /\ EntryOf(shards, k).expires <= at
  BY <1>1 DEF RefreshedFrom, TimeOf, EntryOf
<1>3. TimeOf(shards, k) \in Nat /\ at \in Nat
      /\ (ShardIndex(k) \in TouchedShards(checks) => TimeOf(shards, k) <= at)
  BY BucketFacts DEF CallTime, TimeOf
<1>4. PICK n \in Nat : n = TimeOf(r, k) /\ TimeOf(shards, k) <= n
  BY <1>2, <1>3
<1>5. Abstract!Drained(k, n) = Level(k, EntryOf(shards, k), n)
  BY <1>4, DrainedFact
<1>6. CASE EntryOf(r, k) = EntryOf(shards, k)
  BY <1>2, <1>3, <1>4, <1>5, <1>6
<1>7. CASE /\ ShardIndex(k) \in TouchedShards(checks) /\ EntryOf(r, k) = Absent
           /\ EntryOf(shards, k).expires <= at
  <2>1. n = at
    BY <1>2, <1>4, <1>7
  <2>2. EntryOf(shards, k).value <= n * Policy[k].quota /\ n * Policy[k].quota \in Nat
    BY <1>7, <2>1, ExpiredIsDrained, PolicyFacts
  <2>3. Level(k, EntryOf(shards, k), n) = 0
    BY <2>2, BucketFacts DEF Level, Left
  <2>4. Level(k, EntryOf(r, k), n) = 0
    BY <1>7, <2>2 DEF Level, Left, Absent
  <2> QED BY <1>2, <1>3, <1>4, <1>5, <2>3, <2>4
<1> QED BY <1>2, <1>6, <1>7

\* Persisting an admitted call keeps every shard in order and charges exactly its keys.
LEMMA ConsumedLemma ==
  ASSUME GoodShards(shards), NEW checks \in Runnable, NEW at, CallTime(checks, at),
         NEW r, GoodShards(r), \A j \in DOMAIN checks : ~NoRoomFor(r, checks, j),
         \A j \in DOMAIN checks : EvaluateCheck(checks[j], at).kind = "allowed"
  PROVE  /\ GoodShards(Consumed(r, checks, Evaluations(checks, at)))
         /\ ChargedFrom(r, Consumed(r, checks, Evaluations(checks, at)), checks, at)
<1> DEFINE ev == Evaluations(checks, at)
<1> DEFINE C == Consumed(r, checks, ev)
<1> DEFINE K(i) == {h \in KeysOf(checks) : ShardIndex(h) = i}
<1> DEFINE new(i) == [k \in K(i) |-> NewEntry(checks, ev, k)]
<1>1. ASSUME NEW k \in KeysOf(checks)
      PROVE  /\ k \in Key
             /\ NewEntry(checks, ev, k) \in [value : Nat, expires : Nat \ {0}]
             /\ NewEntry(checks, ev, k).value <= NewEntry(checks, ev, k).expires * Policy[k].quota
             /\ \A j \in DOMAIN checks : checks[j].key = k =>
                  NewEntry(checks, ev, k).value = EvaluateCheck(checks[j], at).allowance.tat
  <2>1. PICK j \in DOMAIN checks : checks[j].key = k
    BY DEF KeysOf
  <2>2. Charging(checks, k) = j /\ \A h \in DOMAIN checks : checks[h].key = k => h = j
    BY <2>1, ChargingFact, CallIsDistinct DEF Distinct
  <2>3. PICK e : e = EvaluateCheck(checks[j], at)
    OBVIOUS
  <2>4. Answers(checks[j], at, e) /\ e.kind = "allowed" /\ ev[j] = e /\ k \in Key
    BY <2>1, <2>3, CallAnswers
  <2>5. e.allowance.tat \in Nat /\ e.allowance.expires \in Nat \ {0}
        /\ e.allowance.tat <= e.allowance.expires * Policy[k].quota
    BY <2>1, <2>4 DEF Answers
  <2>6. NewEntry(checks, ev, k) = [value |-> e.allowance.tat, expires |-> e.allowance.expires]
    BY <2>2, <2>4 DEF NewEntry
  <2> QED BY <2>2, <2>3, <2>4, <2>5, <2>6
<1> HIDE DEF ev
<1>2. ASSUME NEW i \in ShardIndexes
      PROVE  /\ C[i] \in ShardType /\ ShardOK(C[i], i) /\ C[i].latest = r[i].latest
             /\ \A k \in Key : C[i].entries[k] = IF k \in K(i) THEN NewEntry(checks, ev, k)
                                                 ELSE r[i].entries[k]
  <2>1. C[i] = ReplaceAll(r[i], new(i))
    BY DEF Consumed
  <2>2. r[i] \in ShardType /\ IndexAgrees(r[i]) /\ ShardOK(r[i], i) /\ Used(r[i]) <= ShardCapacity(i)
    BY ShardFacts DEF GoodShards
  <2>3. K(i) \in SUBSET Key /\ new(i) \in [K(i) -> [value : Nat, expires : Nat \ {0}]]
    BY <1>1
  <2>4. \A k \in K(i) : new(i)[k] = NewEntry(checks, ev, k)
    OBVIOUS
  <2>5. Cardinality(Stored(r[i]) \cup K(i)) <= ShardCapacity(i)
    <3>1. r \in [ShardIndexes -> ShardType]
      BY DEF GoodShards
    <3> QED BY <2>2, <3>1, RoomLemma
  <2>6. PICK Ki \in SUBSET Key : Ki = K(i)
    BY <2>3
  <2>7. PICK ni \in [Ki -> [value : Nat, expires : Nat \ {0}]] : ni = new(i)
    BY <2>3, <2>6
  <2>8. C[i] = ReplaceAll(r[i], ni) /\ Cardinality(Stored(r[i]) \cup Ki) <= ShardCapacity(i)
        /\ \A k \in Ki : ni[k] = NewEntry(checks, ev, k)
    BY <2>1, <2>4, <2>5, <2>6, <2>7
  <2>9. /\ C[i] \in ShardType /\ C[i].latest = r[i].latest
        /\ Stored(C[i]) = Stored(r[i]) \cup Ki
        /\ IndexAgrees(C[i])
        /\ \A k \in Key : C[i].entries[k] = IF k \in Ki THEN ni[k] ELSE r[i].entries[k]
    BY <2>2, <2>8, ReplaceAllLemma
  <2>10. Used(C[i]) <= ShardCapacity(i)
    BY <2>8, <2>9 DEF Used
  <2>11. ASSUME NEW k \in Key
         PROVE  C[i].entries[k].value <= C[i].entries[k].expires * Policy[k].quota
    <3>1. CASE k \in Ki
      BY <1>1, <2>6, <2>8, <2>9, <3>1
    <3>2. CASE k \notin Ki
      BY <2>2, <2>9, <3>2 DEF ShardOK
    <3> QED BY <3>1, <3>2
  <2>12. \A k \in Key : C[i].entries[k] = IF k \in K(i) THEN NewEntry(checks, ev, k) ELSE r[i].entries[k]
    BY <2>6, <2>8, <2>9
  <2> QED BY <2>9, <2>10, <2>11, <2>12 DEF ShardOK
<1>3. C = [i \in ShardIndexes |-> C[i]]
  BY DEF Consumed
<1> HIDE DEF C
<1>4. GoodShards(C)
  BY <1>2, <1>3 DEF GoodShards
<1>5. \A i \in ShardIndexes : C[i].latest = r[i].latest
  BY <1>2
<1>6. ASSUME NEW k \in Key \ KeysOf(checks) PROVE EntryOf(C, k) = EntryOf(r, k)
  <2>1. ShardIndex(k) \in ShardIndexes /\ k \notin K(ShardIndex(k))
    BY ShardIndexInRange
  <2> QED BY <1>2, <2>1 DEF EntryOf
<1>7. ASSUME NEW j \in DOMAIN checks
      PROVE  EntryOf(C, checks[j].key).value = EvaluateCheck(checks[j], at).allowance.tat
  <2>1. PICK k \in KeysOf(checks) : k = checks[j].key
    BY ChargingFact
  <2>2. k \in Key /\ ShardIndex(k) \in ShardIndexes /\ k \in K(ShardIndex(k))
    BY <1>1, ShardIndexInRange
  <2>3. EntryOf(C, k) = NewEntry(checks, ev, k)
    BY <1>2, <2>2 DEF EntryOf
  <2> QED BY <1>1, <2>1, <2>3
<1> QED BY <1>4, <1>5, <1>6, <1>7 DEF C, ev, ChargedFrom

\* The three ways a call that found no poison ends.

Overflowed(checks) ==
    reply' = Reply("overflow", checks, 0, 0, <<>>) /\ shards' = shards /\ granted' = granted

Stopped(checks, at) ==
    /\ GoodShards(shards')
    /\ RefreshedFrom(shards, shards', TouchedShards(checks), at)
    /\ granted' = granted
    /\ \A j \in DOMAIN checks : EvaluateCheck(checks[j], at).kind # "overflow"
    /\ \E f \in DOMAIN checks :
         /\ \A h \in 1..(f - 1) : h \in DOMAIN checks /\ EvaluateCheck(checks[h], at).kind = "allowed"
         /\ \/ /\ EvaluateCheck(checks[f], at).kind = "denied"
               /\ reply' = Reply(IF checks[f].mode = "Shadow" THEN "shadow_denied" ELSE "quota_denied",
                                 checks, f, EvaluateCheck(checks[f], at).retry, <<>>)
            \/ /\ ~ContainsKey(shards'[ShardIndex(checks[f].key)], checks[f].key)
               /\ \E retry \in Nat : reply' = Reply("capacity_denied", checks, f, retry, <<>>)

Admitted(checks, at) ==
    /\ GoodShards(shards')
    /\ \E r : /\ GoodShards(r) /\ RefreshedFrom(shards, r, TouchedShards(checks), at)
              /\ ChargedFrom(r, shards', checks, at)
    /\ \A j \in DOMAIN checks : EvaluateCheck(checks[j], at).kind = "allowed"
    /\ granted' = Granting(checks, at)
    /\ reply' = Reply("allowed", checks, 0, 0,
                      [j \in DOMAIN checks |-> EvaluateCheck(checks[j], at).allowance.available])

\* The locked part of check_inner and check_all_inner ends in one of those ways, at one
\* time for all its shards.
LEMMA SettleCases ==
  ASSUME GoodShards(shards), NEW checks \in Runnable, NEW observed \in Time, Settle(checks, observed)
  PROVE  \E at : /\ CallTime(checks, at)
                 /\ Overflowed(checks) \/ Stopped(checks, at) \/ Admitted(checks, at)
<1> DEFINE at == ClampedNow(checks, observed)
<1> DEFINE ev == Evaluations(checks, at)
<1> DEFINE fresh == Refreshed(checks, at)
<1> DEFINE stopped == {j \in DOMAIN checks : ev[j].kind = "denied" \/ NoRoomFor(fresh, checks, j)}
<1> DEFINE first == Min(stopped)
<1> DEFINE shard == fresh[ShardIndex(checks[first].key)]
<1>1. \/ SettledOverflow(checks, at)
      \/ /\ \A j \in DOMAIN checks : ev[j].kind # "overflow"
         /\ stopped # {}
         /\ shards' = fresh
         /\ reply' = IF ev[first].kind = "denied"
                     THEN Reply(IF checks[first].mode = "Shadow"
                                THEN "shadow_denied" ELSE "quota_denied",
                                checks, first, ev[first].retry, <<>>)
                     ELSE Reply("capacity_denied", checks, first, CapacityRetryAfter(shard, at), <<>>)
         /\ UNCHANGED granted
      \/ /\ \A j \in DOMAIN checks : ev[j].kind # "overflow"
         /\ stopped = {}
         /\ shards' = Consumed(fresh, checks, ev)
         /\ granted' = Granting(checks, at)
         /\ reply' = Reply("allowed", checks, 0, 0, [j \in DOMAIN checks |-> ev[j].allowance.available])
  BY DEF Settle, Evaluations
<1>2. CallTime(checks, at)
  <2>1. shards \in [ShardIndexes -> ShardType]
    BY DEF GoodShards
  <2> QED BY <2>1, ClampedNowLemma DEF CallTime
<1>3. at \in Nat
  BY <1>2 DEF CallTime
<1> HIDE DEF at
<1>4. \A j \in DOMAIN checks : /\ ev[j] = EvaluateCheck(checks[j], at)
                               /\ ev[j].kind \in {"allowed", "denied", "overflow"}
  BY <1>2, CallAnswers DEF Answers
<1>5. GoodShards(fresh) /\ RefreshedFrom(shards, fresh, TouchedShards(checks), at)
  BY <1>3, RefreshedLemma
<1>6. DOMAIN checks = 1..Len(checks) /\ Len(checks) \in Nat /\ DOMAIN checks \subseteq Nat
      /\ \A j \in DOMAIN checks : checks[j].key \in Key
  BY CallFacts
<1> HIDE DEF ev, fresh
<1>7. CASE SettledOverflow(checks, at)
  BY <1>2, <1>7 DEF SettledOverflow, Overflowed
<1>8. CASE /\ \A j \in DOMAIN checks : ev[j].kind # "overflow"
           /\ stopped # {}
           /\ shards' = fresh
           /\ reply' = IF ev[first].kind = "denied"
                       THEN Reply(IF checks[first].mode = "Shadow"
                                  THEN "shadow_denied" ELSE "quota_denied",
                                  checks, first, ev[first].retry, <<>>)
                       ELSE Reply("capacity_denied", checks, first, CapacityRetryAfter(shard, at), <<>>)
           /\ UNCHANGED granted
  <2>1. stopped \in SUBSET Nat /\ stopped # {}
    BY <1>6, <1>8
  <2>2. first \in stopped /\ \A y \in stopped : first <= y
    BY <2>1, MinOfNaturals
  <2>3. PICK f \in DOMAIN checks : f = first
    BY <2>2
  <2>4. f \in stopped /\ \A y \in stopped : f <= y
    BY <2>2, <2>3
  <2>5. \A h \in 1..(f - 1) : h \in DOMAIN checks /\ EvaluateCheck(checks[h], at).kind = "allowed"
    <3> SUFFICES ASSUME NEW h \in 1..(f - 1)
                 PROVE  h \in DOMAIN checks /\ EvaluateCheck(checks[h], at).kind = "allowed"
      OBVIOUS
    <3>1. h \in Nat /\ h >= 1 /\ h < f /\ f \in Nat
      BY <1>6
    <3>2. h \in DOMAIN checks
      BY <1>6, <3>1
    <3>3. h \notin stopped
      BY <2>4, <3>1
    <3>4. ev[h].kind # "denied" /\ ev[h].kind # "overflow"
      BY <1>8, <3>2, <3>3
    <3> QED BY <1>4, <3>2, <3>4
  <2>6. \/ /\ EvaluateCheck(checks[f], at).kind = "denied"
           /\ reply' = Reply(IF checks[f].mode = "Shadow" THEN "shadow_denied" ELSE "quota_denied",
                             checks, f, EvaluateCheck(checks[f], at).retry, <<>>)
        \/ /\ ~ContainsKey(shards'[ShardIndex(checks[f].key)], checks[f].key)
           /\ \E retry \in Nat : reply' = Reply("capacity_denied", checks, f, retry, <<>>)
    <3>1. CASE ev[f].kind = "denied"
      BY <1>4, <1>8, <2>3, <3>1
    <3>2. CASE ev[f].kind # "denied"
      <4>1. NoRoomFor(fresh, checks, f)
        BY <2>4, <3>2
      <4>2. ~ContainsKey(fresh[ShardIndex(checks[f].key)], checks[f].key)
        BY <4>1 DEF NoRoomFor
      <4>3. fresh[ShardIndex(checks[f].key)] \in ShardType
        BY <1>5, <1>6, ShardIndexInRange DEF GoodShards
      <4>4. CapacityRetryAfter(fresh[ShardIndex(checks[f].key)], at) \in Nat
        BY <1>3, <4>3, RetryType
      <4> QED BY <1>8, <2>3, <3>2, <4>2, <4>4
    <3> QED BY <3>1, <3>2
  <2>7. Stopped(checks, at)
    BY <1>4, <1>5, <1>8, <2>5, <2>6 DEF Stopped
  <2> QED BY <1>2, <2>7
<1>9. CASE /\ \A j \in DOMAIN checks : ev[j].kind # "overflow"
           /\ stopped = {}
           /\ shards' = Consumed(fresh, checks, ev)
           /\ granted' = Granting(checks, at)
           /\ reply' = Reply("allowed", checks, 0, 0, [j \in DOMAIN checks |-> ev[j].allowance.available])
  <2>1. \A j \in DOMAIN checks : ~NoRoomFor(fresh, checks, j) /\ ev[j].kind # "denied"
    BY <1>9
  <2>2. \A j \in DOMAIN checks : EvaluateCheck(checks[j], at).kind = "allowed"
    BY <1>4, <1>9, <2>1
  <2>3. GoodShards(shards') /\ ChargedFrom(fresh, shards', checks, at)
    <3>1. /\ GoodShards(Consumed(fresh, checks, Evaluations(checks, at)))
          /\ ChargedFrom(fresh, Consumed(fresh, checks, Evaluations(checks, at)), checks, at)
      BY <1>2, <1>5, <2>1, <2>2, ConsumedLemma
    <3> QED BY <1>9, <3>1 DEF ev
  <2>4. reply' = Reply("allowed", checks, 0, 0,
                       [j \in DOMAIN checks |-> EvaluateCheck(checks[j], at).allowance.available])
    <3>1. [j \in DOMAIN checks |-> ev[j].allowance.available]
            = [j \in DOMAIN checks |-> EvaluateCheck(checks[j], at).allowance.available]
      BY <1>4
    <3> QED BY <1>9, <3>1
  <2>5. Admitted(checks, at)
    BY <1>5, <1>9, <2>2, <2>3, <2>4 DEF Admitted
  <2> QED BY <1>2, <2>5
<1> QED BY <1>1, <1>7, <1>8, <1>9

\* A call either finds poison or runs to one of its ends.
LEMMA RunCases ==
  ASSUME GoodShards(shards), NEW checks \in Runnable, NEW observed \in Time, Run(checks, observed)
  PROVE  /\ poisoned' = poisoned
         /\ \/ /\ reply' = Reply("poisoned", checks, 0, 0, <<>>)
               /\ shards' = shards /\ granted' = granted
            \/ \E at : /\ CallTime(checks, at)
                       /\ Overflowed(checks) \/ Stopped(checks, at) \/ Admitted(checks, at)
<1>1. CASE /\ TouchedShards(checks) \cap poisoned # {}
           /\ reply' = Reply("poisoned", checks, 0, 0, <<>>)
           /\ UNCHANGED <<shards, poisoned, granted>>
  BY <1>1
<1>2. CASE /\ TouchedShards(checks) \cap poisoned = {}
           /\ Settle(checks, observed)
           /\ UNCHANGED poisoned
  BY <1>2, SettleCases
<1> QED BY <1>1, <1>2 DEF Run

\* An answer without a delay or an availability.
Bare(answer) == answer.retry = 0 /\ DOMAIN answer.available = {}

\* The steps of the store: calls, refusals without effect, and the emptying of shards.
LEMMA StepCases ==
  ASSUME Inv, Next
  PROVE  \/ \E checks \in Runnable, observed \in Time : Run(checks, observed)
         \/ /\ reply'.outcome \in {"invalid", "panicked", "poisoned"} /\ Bare(reply')
            /\ shards' = shards /\ granted' = granted
            /\ poisoned' \subseteq ShardIndexes
         \/ /\ reply'.outcome = "cleared" /\ Bare(reply')
            /\ shards' = [i \in ShardIndexes |-> ClearShard(shards[i])]
            /\ Emptied(ShardIndexes) /\ poisoned' = poisoned
         \/ /\ reply'.outcome = "recovered" /\ Bare(reply')
            /\ shards' = [i \in ShardIndexes |-> IF i \in poisoned THEN EmptyShard ELSE shards[i]]
            /\ Emptied(poisoned) /\ poisoned' = {}
<1>1. CASE Check
  <2>1. PICK c \in Singles, observed \in Time : Run(<<c>>, observed)
    BY <1>1 DEF Check
  <2>2. <<c>> \in Runnable
    BY DEF Runnable
  <2> QED BY <2>1, <2>2
<1>2. CASE CheckAll
  <2>1. PICK checks \in Batches, observed \in Time : ~Invalid(checks) /\ Run(checks, observed)
    BY <1>2 DEF CheckAll
  <2>2. checks \in Runnable
    BY <2>1 DEF Runnable
  <2> QED BY <2>1, <2>2
<1>3. CASE RejectBatch
  <2>1. PICK checks \in Batches : /\ reply' = Reply("invalid", checks, 0, 0, <<>>)
                                  /\ UNCHANGED <<shards, poisoned, granted>>
    BY <1>3 DEF RejectBatch
  <2>2. reply'.outcome = "invalid" /\ Bare(reply')
    BY <2>1 DEF Reply, Bare
  <2> QED BY <2>1, <2>2 DEF Inv
<1>4. CASE ClockPanic
  <2>1. PICK checks \in Runnable : /\ poisoned' = poisoned \cup TouchedShards(checks)
                                   /\ reply' = Plain("panicked") /\ UNCHANGED <<shards, granted>>
    BY <1>4 DEF ClockPanic, Runnable
  <2>2. reply'.outcome = "panicked" /\ Bare(reply') /\ TouchedShards(checks) \subseteq ShardIndexes
    BY <2>1, CallFacts DEF Reply, Plain, Bare
  <2> QED BY <2>1, <2>2 DEF Inv
<1>5. CASE ClearAll
  <2>1. \A o : Plain(o).outcome = o /\ Bare(Plain(o))
    BY DEF Plain, Reply, Bare
  <2> QED BY <1>5, <2>1 DEF ClearAll, Inv
<1>6. CASE RecoverPoisoned
  <2>1. Plain("recovered").outcome = "recovered" /\ Bare(Plain("recovered"))
    BY DEF Plain, Reply, Bare
  <2> QED BY <1>6, <2>1 DEF RecoverPoisoned
<1> QED BY <1>1, <1>2, <1>3, <1>4, <1>5, <1>6 DEF Next

----------------------------------------------------------------------------
(* The shards stay in order                                                *)

\* Initially and after every step.
LEMMA InitInv == Init => Inv
<1> SUFFICES ASSUME Init PROVE Inv
  OBVIOUS
<1>1. shards = [i \in ShardIndexes |-> EmptyShard] /\ poisoned = {}
  BY DEF Init
<1>2. EmptyShard \in ShardType /\ \A i \in ShardIndexes : ShardOK(EmptyShard, i)
  BY EmptyShardLemma, EmptiedOK
<1> QED BY <1>1, <1>2 DEF Inv, GoodShards

\* Every step keeps the shards in order.
LEMMA NextInv ==
  ASSUME Inv, Next
  PROVE  Inv'
<1>1. GoodShards(shards) /\ poisoned \subseteq ShardIndexes
  BY DEF Inv
<1>2. CASE \E checks \in Runnable, observed \in Time : Run(checks, observed)
  <2>1. PICK checks \in Runnable, observed \in Time : Run(checks, observed)
    BY <1>2
  <2>2. poisoned' = poisoned /\ GoodShards(shards')
    BY <1>1, <2>1, RunCases DEF Overflowed, Stopped, Admitted
  <2> QED BY <1>1, <2>2 DEF Inv, GoodShards
<1>3. CASE shards' = shards /\ poisoned' \subseteq ShardIndexes
  BY <1>1, <1>3 DEF Inv, GoodShards
<1>4. CASE /\ shards' = [i \in ShardIndexes |-> ClearShard(shards[i])]
           /\ poisoned' = poisoned
  <2>1. ASSUME NEW i \in ShardIndexes PROVE ClearShard(shards[i]) \in ShardType /\ ShardOK(ClearShard(shards[i]), i)
    <3>1. shards[i] \in ShardType
      BY <1>1 DEF GoodShards
    <3>2. /\ ClearShard(shards[i]) \in ShardType /\ Stored(ClearShard(shards[i])) = {}
          /\ IndexAgrees(ClearShard(shards[i]))
      BY <3>1, ClearShardLemma
    <3> QED BY <3>2, EmptiedOK
  <2> QED BY <1>1, <1>4, <2>1 DEF Inv, GoodShards
<1>5. CASE /\ shards' = [i \in ShardIndexes |-> IF i \in poisoned THEN EmptyShard ELSE shards[i]]
           /\ poisoned' = {}
  <2>1. EmptyShard \in ShardType /\ \A i \in ShardIndexes : ShardOK(EmptyShard, i)
    BY EmptyShardLemma, EmptiedOK
  <2> QED BY <1>1, <1>5, <2>1 DEF Inv, GoodShards
<1> QED BY <1>2, <1>3, <1>4, <1>5, StepCases

\* Nothing changes without a step.
LEMMA StutterInv ==
  ASSUME Inv, UNCHANGED vars
  PROVE  Inv'
BY DEF Inv, GoodShards, vars

\* The shards are in order in every reachable state: typed, indexed, within their shares,
\* and with no arrival time beyond its entry's expiry.
THEOREM Invariance == Spec => []Inv
<1>1. Inv /\ [Next]_vars => Inv'
  BY NextInv, StutterInv
<1> QED BY <1>1, InitInv, PTL DEF Spec

\* Batches, pruning, clearing and recovery never store more counters in a shard than its
\* share of max_keys, and never leave the expiration index and the entries disagreeing.
THEOREM ShardConsistency == Spec => []ShardsConsistent
<1>1. Inv => ShardsConsistent
  BY DEF Inv, GoodShards, ShardOK, ShardsConsistent
<1> QED BY <1>1, Invariance, PTL

\* The rounded-up expiry is never before the exact arrival time, so treating an expired
\* entry as missing, or pruning it, forgets no debt.
THEOREM ExpiryIsSafe == Spec => []ExpiryLosesNothing
<1>1. Inv => ExpiryLosesNothing
  BY ShardIndexInRange DEF Inv, GoodShards, ShardOK, ExpiryLosesNothing
<1> QED BY <1>1, Invariance, PTL

----------------------------------------------------------------------------
(* The store implements TokenBucket                                        *)

\* The abstract bucket after a step, from the shards after it.
LEMMA NextBucket ==
  ASSUME NEW k \in Key
  PROVE  /\ [h \in Key |-> Debt(h)]'[k] = Level(k, EntryOf(shards', k), TimeOf(shards', k))
         /\ [h \in Key |-> shards[ShardIndex(h)].latest]'[k] = TimeOf(shards', k)
<1>1. [h \in Key |-> Debt(h)]'[k] = Debt(k)'
  OBVIOUS
<1>2. Debt(k)' = Level(k, EntryOf(shards', k), TimeOf(shards', k))
  BY DEF Debt, EntryOf, TimeOf, Level, Left
<1>3. [h \in Key |-> shards[ShardIndex(h)].latest]'[k] = TimeOf(shards', k)
  BY DEF TimeOf
<1> QED BY <1>1, <1>2, <1>3

\* The abstract bucket before a step.
LEMMA ThisBucket ==
  ASSUME NEW k \in Key
  PROVE  /\ [h \in Key |-> Debt(h)][k] = Debt(k)
         /\ [h \in Key |-> shards[ShardIndex(h)].latest][k] = TimeOf(shards, k)
BY DEF TimeOf

\* A bucket that drains and does nothing else.
LEMMA AgesFact ==
  ASSUME NEW k \in Key, TimeOf(shards', k) >= TimeOf(shards, k),
         Level(k, EntryOf(shards', k), TimeOf(shards', k)) = Abstract!Drained(k, TimeOf(shards', k))
  PROVE  Abstract!Ages(k)
BY NextBucket, ThisBucket DEF Abstract!Ages

\* All buckets a call charges are seen at its time.
LEMMA CommonTimeFact ==
  ASSUME NEW checks \in Runnable, NEW at,
         \A j \in DOMAIN checks : TimeOf(shards', checks[j].key) = at /\ at >= TimeOf(shards, checks[j].key)
  PROVE  /\ Abstract!CommonTime(checks, at)
         /\ [h \in Key |-> shards[ShardIndex(h)].latest]'[checks[1].key] = at
<1>1. \A j \in DOMAIN checks : checks[j].key \in Key /\ 1 \in DOMAIN checks
  BY CallFacts
<1>2. 1 \in DOMAIN checks
  BY CallFacts
<1> QED BY <1>1, <1>2, NextBucket, ThisBucket DEF Abstract!CommonTime

\* A denied or refused call: the time passes, and the answer is right.
LEMMA StoppedRefines ==
  ASSUME GoodShards(shards), NEW checks \in Runnable, NEW at, CallTime(checks, at), Stopped(checks, at)
  PROVE  Abstract!Next
<1>1. \A k \in Key : Abstract!Ages(k)
  <2> SUFFICES ASSUME NEW k \in Key PROVE Abstract!Ages(k)
    OBVIOUS
  <2>1. RefreshedFrom(shards, shards', TouchedShards(checks), at)
    BY DEF Stopped
  <2> QED BY <2>1, RefreshedAges, AgesFact
<1>2. /\ Abstract!CommonTime(checks, at)
      /\ [h \in Key |-> shards[ShardIndex(h)].latest]'[checks[1].key] = at
  <2>1. ASSUME NEW j \in DOMAIN checks
        PROVE  TimeOf(shards', checks[j].key) = at /\ at >= TimeOf(shards, checks[j].key)
    <3>1. RefreshedFrom(shards, shards', TouchedShards(checks), at)
      BY DEF Stopped
    <3>2. checks[j].key \in Key /\ ShardIndex(checks[j].key) \in TouchedShards(checks)
      BY CallFacts DEF TouchedShards
    <3> QED BY <3>1, <3>2, RefreshedAges
  <2> QED BY <2>1, CommonTimeFact
<1>3. PICK f \in DOMAIN checks :
         /\ \A h \in 1..(f - 1) : h \in DOMAIN checks /\ EvaluateCheck(checks[h], at).kind = "allowed"
         /\ \/ /\ EvaluateCheck(checks[f], at).kind = "denied"
               /\ reply' = Reply(IF checks[f].mode = "Shadow" THEN "shadow_denied" ELSE "quota_denied",
                                 checks, f, EvaluateCheck(checks[f], at).retry, <<>>)
            \/ /\ ~ContainsKey(shards'[ShardIndex(checks[f].key)], checks[f].key)
               /\ \E retry \in Nat : reply' = Reply("capacity_denied", checks, f, retry, <<>>)
  BY DEF Stopped
<1>4. CASE /\ EvaluateCheck(checks[f], at).kind = "denied"
           /\ reply' = Reply(IF checks[f].mode = "Shadow" THEN "shadow_denied" ELSE "quota_denied",
                             checks, f, EvaluateCheck(checks[f], at).retry, <<>>)
  <2> DEFINE e == EvaluateCheck(checks[f], at)
  <2>1. /\ reply'.checks = checks /\ reply'.index = f /\ reply'.retry = e.retry
        /\ reply'.outcome = IF checks[f].mode = "Shadow" THEN "shadow_denied" ELSE "quota_denied"
    BY <1>4 DEF Reply
  <2>2. /\ reply'.outcome \in {"quota_denied", "shadow_denied"}
        /\ (reply'.outcome = "shadow_denied") <=> (checks[f].mode = "Shadow")
    BY <2>1
  <2>3. /\ ~Abstract!Fits(checks[f], at)
        /\ e.retry > 0
        /\ Abstract!After(checks[f], at) <= Abstract!Brim(checks[f].key) + e.retry * Policy[checks[f].key].quota
        /\ Abstract!After(checks[f], at) > Abstract!Brim(checks[f].key) + (e.retry - 1) * Policy[checks[f].key].quota
    BY <1>4, CallAnswers DEF Answers
  <2>4. \A h \in 1..(f - 1) : Abstract!Fits(checks[h], at)
    BY <1>3, CallAnswers DEF Answers
  <2> HIDE DEF e
  <2>5. Abstract!Deny
    BY <1>1, <1>2, <2>1, <2>2, <2>3, <2>4, Zenon DEF Abstract!Deny
  <2> QED BY <2>5 DEF Abstract!Next
<1>5. CASE /\ ~ContainsKey(shards'[ShardIndex(checks[f].key)], checks[f].key)
           /\ \E retry \in Nat : reply' = Reply("capacity_denied", checks, f, retry, <<>>)
  <2>1. reply'.checks = checks /\ reply'.index = f /\ reply'.outcome = "capacity_denied"
    BY <1>5 DEF Reply
  <2>2. PICK k \in Key : k = checks[f].key
    BY CallFacts
  <2>3. EntryOf(shards', k) = Absent
    BY <1>5, <2>2 DEF ContainsKey, Stored, EntryOf
  <2>4. TimeOf(shards', k) = at /\ at \in Nat
    <3>1. RefreshedFrom(shards, shards', TouchedShards(checks), at)
      BY DEF Stopped
    <3>2. ShardIndex(k) \in TouchedShards(checks)
      BY <2>2 DEF TouchedShards
    <3> QED BY <3>1, <3>2, RefreshedAges DEF CallTime
  <2>5. Level(k, EntryOf(shards', k), TimeOf(shards', k)) = 0
    <3>1. at * Policy[k].quota \in Nat
      BY <2>4, PolicyFacts
    <3> QED BY <2>3, <2>4, <3>1 DEF Level, Left, Absent
  <2>6. [h \in Key |-> Debt(h)]'[checks[f].key] = 0
    BY <2>2, <2>5, NextBucket
  <2>7. Abstract!Refuse
    BY <1>1, <2>1, <2>6, Zenon DEF Abstract!Refuse
  <2> QED BY <2>7 DEF Abstract!Next
<1> QED BY <1>3, <1>4, <1>5

\* What an admitted call leaves in a bucket: its charge on top of what had not drained, or
\* just what had not drained.
LEMMA AdmittedBuckets ==
  ASSUME GoodShards(shards), NEW checks \in Runnable, NEW at, CallTime(checks, at), Admitted(checks, at)
  PROVE  /\ \A j \in DOMAIN checks :
              /\ TimeOf(shards', checks[j].key) = at /\ at >= TimeOf(shards, checks[j].key)
              /\ Abstract!Fits(checks[j], at)
              /\ Level(checks[j].key, EntryOf(shards', checks[j].key), at) = Abstract!After(checks[j], at)
         /\ \A k \in Key \ KeysOf(checks) :
              /\ TimeOf(shards', k) >= TimeOf(shards, k)
              /\ Level(k, EntryOf(shards', k), TimeOf(shards', k)) = Abstract!Drained(k, TimeOf(shards', k))
<1>1. PICK r : /\ GoodShards(r) /\ RefreshedFrom(shards, r, TouchedShards(checks), at)
               /\ ChargedFrom(r, shards', checks, at)
  BY DEF Admitted
<1>2. \A k \in Key : TimeOf(shards', k) = TimeOf(r, k)
  BY <1>1, ShardIndexInRange DEF ChargedFrom, TimeOf
<1>3. ASSUME NEW j \in DOMAIN checks
      PROVE  /\ TimeOf(shards', checks[j].key) = at /\ at >= TimeOf(shards, checks[j].key)
             /\ Abstract!Fits(checks[j], at)
             /\ Level(checks[j].key, EntryOf(shards', checks[j].key), at) = Abstract!After(checks[j], at)
  <2>1. PICK k \in Key : k = checks[j].key /\ ShardIndex(k) \in TouchedShards(checks)
    BY CallFacts DEF TouchedShards
  <2>2. TimeOf(r, k) = at /\ at >= TimeOf(shards, k) /\ at \in Nat
    BY <1>1, <2>1, RefreshedAges DEF CallTime
  <2>3. PICK e : e = EvaluateCheck(checks[j], at)
    OBVIOUS
  <2>4. e.kind = "allowed" /\ Answers(checks[j], at, e) /\ Abstract!After(checks[j], at) \in Nat
    BY <2>3, CallAnswers DEF Admitted
  <2>5. Abstract!Fits(checks[j], at) /\ e.allowance.tat = at * Policy[k].quota + Abstract!After(checks[j], at)
    BY <2>1, <2>4 DEF Answers
  <2>6. EntryOf(shards', k).value = e.allowance.tat
    BY <1>1, <2>1, <2>3 DEF ChargedFrom
  <2>7. at * Policy[k].quota \in Nat
    BY <2>2, PolicyFacts
  <2>8. Level(k, EntryOf(shards', k), at) = Abstract!After(checks[j], at)
    BY <2>4, <2>5, <2>6, <2>7 DEF Level, Left
  <2> QED BY <1>2, <2>1, <2>2, <2>5, <2>8
<1>4. ASSUME NEW k \in Key \ KeysOf(checks)
      PROVE  /\ TimeOf(shards', k) >= TimeOf(shards, k)
             /\ Level(k, EntryOf(shards', k), TimeOf(shards', k)) = Abstract!Drained(k, TimeOf(shards', k))
  <2>1. EntryOf(shards', k) = EntryOf(r, k)
    BY <1>1 DEF ChargedFrom
  <2>2. /\ TimeOf(r, k) >= TimeOf(shards, k)
        /\ Level(k, EntryOf(r, k), TimeOf(r, k)) = Abstract!Drained(k, TimeOf(r, k))
    BY <1>1, RefreshedAges
  <2> QED BY <1>2, <2>1, <2>2
<1> QED BY <1>3, <1>4

\* An admitted call charges all its buckets at one time, and no other.
LEMMA AdmittedRefines ==
  ASSUME GoodShards(shards), NEW checks \in Runnable, NEW at, CallTime(checks, at), Admitted(checks, at)
  PROVE  Abstract!Next
<1>1. \A k \in Key : (\E j \in DOMAIN checks : checks[j].key = k) \/ Abstract!Ages(k)
  <2> SUFFICES ASSUME NEW k \in Key, ~\E j \in DOMAIN checks : checks[j].key = k PROVE Abstract!Ages(k)
    OBVIOUS
  <2>1. k \in Key \ KeysOf(checks)
    BY DEF KeysOf
  <2>2. /\ TimeOf(shards', k) >= TimeOf(shards, k)
        /\ Level(k, EntryOf(shards', k), TimeOf(shards', k)) = Abstract!Drained(k, TimeOf(shards', k))
    BY <2>1, AdmittedBuckets
  <2> QED BY <2>2, AgesFact
<1>2. /\ Abstract!CommonTime(checks, at)
      /\ [h \in Key |-> shards[ShardIndex(h)].latest]'[checks[1].key] = at
  <2>1. \A j \in DOMAIN checks : TimeOf(shards', checks[j].key) = at /\ at >= TimeOf(shards, checks[j].key)
    BY AdmittedBuckets
  <2> QED BY <2>1, CommonTimeFact
<1>3. /\ reply'.outcome = "allowed" /\ reply'.checks = checks
      /\ reply'.available = [j \in DOMAIN checks |-> EvaluateCheck(checks[j], at).allowance.available]
  BY DEF Admitted, Reply
<1>4. \A j \in DOMAIN checks :
        /\ Abstract!Fits(checks[j], at)
        /\ [h \in Key |-> Debt(h)]'[checks[j].key] = Abstract!After(checks[j], at)
        /\ reply'.available[j] =
             (Abstract!Brim(checks[j].key) - Abstract!After(checks[j], at)) \div Policy[checks[j].key].period
  <2> SUFFICES ASSUME NEW j \in DOMAIN checks
               PROVE  /\ Abstract!Fits(checks[j], at)
                      /\ [h \in Key |-> Debt(h)]'[checks[j].key] = Abstract!After(checks[j], at)
                      /\ reply'.available[j] =
                           (Abstract!Brim(checks[j].key) - Abstract!After(checks[j], at))
                             \div Policy[checks[j].key].period
    OBVIOUS
  <2>1. checks[j].key \in Key
    BY CallFacts
  <2>2. /\ TimeOf(shards', checks[j].key) = at
        /\ Abstract!Fits(checks[j], at)
        /\ Level(checks[j].key, EntryOf(shards', checks[j].key), at) = Abstract!After(checks[j], at)
    BY AdmittedBuckets
  <2>3. [h \in Key |-> Debt(h)]'[checks[j].key] = Abstract!After(checks[j], at)
    BY <2>1, <2>2, NextBucket
  <2>4. reply'.available[j] = EvaluateCheck(checks[j], at).allowance.available
    BY <1>3
  <2>5. EvaluateCheck(checks[j], at).allowance.available =
          (Abstract!Brim(checks[j].key) - Abstract!After(checks[j], at)) \div Policy[checks[j].key].period
    BY CallAnswers DEF Answers, Admitted
  <2> QED BY <2>2, <2>3, <2>4, <2>5
<1>5. Abstract!Admit
  BY <1>1, <1>2, <1>3, <1>4, Zenon DEF Abstract!Admit
<1> QED BY <1>5 DEF Abstract!Next

\* A step that leaves the shards alone leaves the buckets alone.
LEMMA SameBuckets ==
  ASSUME shards' = shards
  PROVE  /\ [k \in Key |-> Debt(k)]' = [k \in Key |-> Debt(k)]
         /\ [k \in Key |-> shards[ShardIndex(k)].latest]' = [k \in Key |-> shards[ShardIndex(k)].latest]
BY DEF Debt

\* Every step maps to a step of the abstract specification.
LEMMA NextRefines ==
  ASSUME Inv, Next
  PROVE  Abstract!Next
<1>0. GoodShards(shards)
  BY DEF Inv
<1>1. ASSUME shards' = shards, reply'.outcome \in {"invalid", "poisoned", "panicked", "overflow"}
      PROVE  Abstract!Next
  <2>1. Abstract!Fail
    BY <1>1, SameBuckets DEF Abstract!Fail
  <2> QED BY <2>1 DEF Abstract!Next
<1>2. CASE \E checks \in Runnable, observed \in Time : Run(checks, observed)
  <2>1. PICK checks \in Runnable, observed \in Time : Run(checks, observed)
    BY <1>2
  <2>2. CASE reply' = Reply("poisoned", checks, 0, 0, <<>>) /\ shards' = shards /\ granted' = granted
    BY <1>1, <2>2 DEF Reply
  <2>3. CASE \E at : /\ CallTime(checks, at)
                     /\ Overflowed(checks) \/ Stopped(checks, at) \/ Admitted(checks, at)
    <3>1. PICK at : /\ CallTime(checks, at)
                    /\ Overflowed(checks) \/ Stopped(checks, at) \/ Admitted(checks, at)
      BY <2>3
    <3>2. CASE Overflowed(checks)
      BY <1>1, <3>2 DEF Overflowed, Reply
    <3>3. CASE Stopped(checks, at)
      BY <1>0, <3>1, <3>3, StoppedRefines
    <3>4. CASE Admitted(checks, at)
      BY <1>0, <3>1, <3>4, AdmittedRefines
    <3> QED BY <3>1, <3>2, <3>3, <3>4
  <2> QED BY <1>0, <2>1, <2>2, <2>3, RunCases
<1>3. CASE reply'.outcome \in {"invalid", "panicked", "poisoned"} /\ shards' = shards
  BY <1>1, <1>3
<1>4. ASSUME NEW k \in Key, NEW i \in ShardIndexes, i = ShardIndex(k),
             shards'[i].entries[k] = Absent, shards'[i].latest \in Nat
      PROVE  [h \in Key |-> Debt(h)]'[k] = 0
  <2>1. EntryOf(shards', k).value = 0 /\ TimeOf(shards', k) * Policy[k].quota \in Nat
    BY <1>4, PolicyFacts DEF EntryOf, TimeOf, Absent
  <2>2. Level(k, EntryOf(shards', k), TimeOf(shards', k)) = 0
    BY <2>1 DEF Level, Left
  <2> QED BY <2>2, NextBucket
<1>5. CASE /\ reply'.outcome = "cleared"
           /\ shards' = [i \in ShardIndexes |-> ClearShard(shards[i])]
  <2>1. ASSUME NEW k \in Key
        PROVE  /\ [h \in Key |-> Debt(h)]'[k] = 0
               /\ [h \in Key |-> shards[ShardIndex(h)].latest]'[k]
                    = [h \in Key |-> shards[ShardIndex(h)].latest][k]
    <3>1. PICK i \in ShardIndexes : i = ShardIndex(k)
      BY ShardIndexInRange
    <3>2. shards'[i] = ClearShard(shards[i]) /\ shards[i].latest \in Nat
      BY <1>0, <1>5, ShardFacts
    <3>3. shards'[i].entries[k] = Absent /\ shards'[i].latest = shards[i].latest
      BY <3>2 DEF ClearShard, WithContents
    <3>4. TimeOf(shards', k) = TimeOf(shards, k)
      BY <3>1, <3>3 DEF TimeOf
    <3> QED BY <1>4, <3>1, <3>2, <3>3, <3>4, NextBucket, ThisBucket
  <2>2. Abstract!Discard
    BY <1>5, <2>1, Zenon DEF Abstract!Discard
  <2> QED BY <2>2 DEF Abstract!Next
<1>6. CASE /\ reply'.outcome = "recovered"
           /\ shards' = [i \in ShardIndexes |-> IF i \in poisoned THEN EmptyShard ELSE shards[i]]
  <2>1. ASSUME NEW k \in Key
        PROVE  \/ [h \in Key |-> Debt(h)]'[k] = 0
               \/ /\ [h \in Key |-> Debt(h)]'[k] = [h \in Key |-> Debt(h)][k]
                  /\ [h \in Key |-> shards[ShardIndex(h)].latest]'[k]
                       = [h \in Key |-> shards[ShardIndex(h)].latest][k]
    <3>1. PICK i \in ShardIndexes : i = ShardIndex(k)
      BY ShardIndexInRange
    <3>2. CASE i \in poisoned
      <4>1. shards'[i].entries[k] = Absent /\ shards'[i].latest = 0
        BY <1>6, <3>2 DEF EmptyShard
      <4> QED BY <1>4, <3>1, <4>1
    <3>3. CASE i \notin poisoned
      <4>1. shards'[i] = shards[i]
        BY <1>6, <3>3
      <4>2. EntryOf(shards', k) = EntryOf(shards, k) /\ TimeOf(shards', k) = TimeOf(shards, k)
        BY <3>1, <4>1 DEF EntryOf, TimeOf
      <4>3. Debt(k) = Level(k, EntryOf(shards, k), TimeOf(shards, k))
        BY <1>0, BucketFacts
      <4> QED BY <4>2, <4>3, NextBucket, ThisBucket
    <3> QED BY <3>2, <3>3
  <2>2. Abstract!Discard
    BY <1>6, <2>1, Zenon DEF Abstract!Discard
  <2> QED BY <2>2 DEF Abstract!Next
<1> QED BY <1>2, <1>3, <1>5, <1>6, StepCases

\* Empty shards are buckets without debt at time zero.
LEMMA InitRefines == Init => Abstract!Init
<1> SUFFICES ASSUME Init PROVE Abstract!Init
  OBVIOUS
<1>1. ASSUME NEW k \in Key PROVE Debt(k) = 0 /\ shards[ShardIndex(k)].latest = 0
  <2>1. shards[ShardIndex(k)] = EmptyShard
    BY ShardIndexInRange DEF Init
  <2>2. shards[ShardIndex(k)].latest = 0 /\ shards[ShardIndex(k)].entries[k].value = 0
    BY <2>1 DEF EmptyShard, Absent
  <2>3. 0 * Policy[k].quota = 0
    BY PolicyFacts
  <2> QED BY <2>2, <2>3 DEF Debt
<1>2. [k \in Key |-> Debt(k)] = [k \in Key |-> 0]
      /\ [k \in Key |-> shards[ShardIndex(k)].latest] = [k \in Key |-> 0]
  BY <1>1
<1> QED BY <1>2 DEF Abstract!Init

\* The sharded, pruned, rounded and indexed store is indistinguishable from continuously
\* draining buckets: admissions of whole batches, denials with the least sufficient delay,
\* reported availability, refusals only of buckets without debt, failures without effect.
THEOREM Refinement == Spec => ImplementsTokenBucket
<1>1. Inv /\ [Next]_vars => [Abstract!Next]_Abstract!vars
  <2> SUFFICES ASSUME Inv, [Next]_vars PROVE [Abstract!Next]_Abstract!vars
    OBVIOUS
  <2>1. CASE Next
    BY <2>1, NextRefines
  <2>2. CASE UNCHANGED vars
    <3>1. shards' = shards /\ reply' = reply
      BY <2>2 DEF vars
    <3> QED BY <3>1, SameBuckets DEF Abstract!vars
  <2> QED BY <2>1, <2>2
<1> QED BY <1>1, InitRefines, Invariance, PTL DEF Spec, ImplementsTokenBucket, Abstract!Spec

----------------------------------------------------------------------------
(* Clamping locks no counter out                                           *)

\* What NoLockout says of a table of shards, missing entries included.
Reachable(s, i) ==
    \/ s[i].latest = 0
    \/ \E k \in Key : /\ ShardIndex(k) = i
                      /\ Ceiling(Policy[k], s[i].latest * Policy[k].quota) <= WideMax

WithinBurst(s, k) == EntryOf(s, k).value <= Ceiling(Policy[k], TimeOf(s, k) * Policy[k].quota)

ReachInv ==
    /\ \A i \in ShardIndexes : Reachable(shards, i)
    /\ \A k \in Key : WithinBurst(shards, k)

\* An evaluation that does not overflow has a ceiling the integers can hold.
LEMMA EvaluatedInRange ==
  ASSUME NEW p \in GcraPolicy, NEW cost, NEW now \in Nat, NEW tat,
         GcraEvaluate(p, cost, now, tat).kind # "overflow"
  PROVE  Ceiling(p, now * p.quota) <= WideMax
<1>1. Overflow.kind = "overflow"
  BY DEF Overflow, Result
<1>2. p.quota \in Nat /\ p.period \in Nat /\ p.burst \in Nat
  BY DEF GcraPolicy
<1>3. now * p.quota \in Nat /\ p.burst * p.period \in Nat
  BY <1>2
<1>4. Ceiling(p, now * p.quota) \in Nat
  BY <1>3 DEF Ceiling
<1> DEFINE ceiling == Ceiling(p, now * p.quota)
<1> DEFINE candidate == AtLeast(tat, now * p.quota) + cost * p.period
<1> DEFINE retry == DivCeil(Excess(candidate, ceiling), p.quota)
<1> DEFINE replenish == DivCeil(candidate - now * p.quota, p.quota)
<1> DEFINE available == (ceiling - candidate) \div p.period
<1> DEFINE allowed == Result("allowed", [tat |-> candidate, expires |-> now + replenish,
                                         available |-> available], 0)
<1>5. GcraEvaluate(p, cost, now, tat) =
        CASE candidate > WideMax \/ ceiling > WideMax -> Overflow
          [] candidate <= WideMax /\ ceiling <= WideMax /\ candidate > ceiling ->
               IF retry > DelayMax THEN Overflow ELSE Result("denied", NoAllowance, retry)
          [] OTHER -> IF now + replenish > WideMax \/ replenish > DelayMax \/ available > DelayMax
                      THEN Overflow ELSE allowed
  BY DEF GcraEvaluate
<1>6. ~(ceiling > WideMax)
  <2> SUFFICES ASSUME ceiling > WideMax PROVE FALSE
    OBVIOUS
  <2>1. ~(ceiling <= WideMax)
    BY <1>4, GcraAssumption
  <2> HIDE DEF ceiling, candidate, retry, replenish, available, allowed
  <2>2. GcraEvaluate(p, cost, now, tat) = Overflow
    BY <1>5, <2>1
  <2> QED BY <1>1, <2>2
<1> QED BY <1>4, <1>6, GcraAssumption

\* A counter without debt is within its burst, and so is one whose shard's time moves on.
LEMMA BurstFacts ==
  ASSUME NEW k \in Key, NEW n \in Nat, NEW m \in Nat, n <= m
  PROVE  /\ Ceiling(Policy[k], n * Policy[k].quota) \in Nat
         /\ Ceiling(Policy[k], m * Policy[k].quota) \in Nat
         /\ Ceiling(Policy[k], n * Policy[k].quota) <= Ceiling(Policy[k], m * Policy[k].quota)
<1>1. PICK q \in Nat : q = Policy[k].quota
  BY PolicyFacts
<1>2. PICK b \in Nat : b = Policy[k].burst * Policy[k].period
  BY PolicyFacts
<1>3. n * q \in Nat /\ m * q \in Nat /\ n * q <= m * q
  BY TimesMonotone
<1> QED BY <1>1, <1>2, <1>3 DEF Ceiling

\* Recording a call's time and pruning: every touched shard has a check of the call that
\* was evaluated at that time, and debts only drain.
LEMMA RefreshedReach ==
  ASSUME GoodShards(shards), ReachInv, NEW checks \in Runnable, NEW at, CallTime(checks, at),
         NEW r, GoodShards(r), RefreshedFrom(shards, r, TouchedShards(checks), at),
         \A j \in DOMAIN checks : EvaluateCheck(checks[j], at).kind # "overflow"
  PROVE  /\ \A i \in ShardIndexes : Reachable(r, i)
         /\ \A k \in Key : WithinBurst(r, k)
<1>1. ASSUME NEW i \in ShardIndexes PROVE Reachable(r, i)
  <2>1. CASE i \notin TouchedShards(checks)
    <3>1. r[i].latest = shards[i].latest
      BY <2>1 DEF RefreshedFrom
    <3> QED BY <3>1 DEF ReachInv, Reachable
  <2>2. CASE i \in TouchedShards(checks)
    <3>1. PICK j \in DOMAIN checks : ShardIndex(checks[j].key) = i
      BY <2>2 DEF TouchedShards
    <3>2. PICK k \in Key : k = checks[j].key
      BY CallFacts
    <3>3. r[i].latest = at /\ at \in Nat
      BY <2>2 DEF RefreshedFrom, CallTime
    <3>4. Ceiling(Policy[k], at * Policy[k].quota) <= WideMax
      <4>1. EvaluateCheck(checks[j], at).kind # "overflow"
        OBVIOUS
      <4>2. PICK tat : EvaluateCheck(checks[j], at) = GcraEvaluate(Policy[k], checks[j].cost, at, tat)
        BY <3>2 DEF EvaluateCheck
      <4>3. Policy[k] \in GcraPolicy
        BY PolicyFacts
      <4> QED BY <3>3, <4>1, <4>2, <4>3, EvaluatedInRange
    <3> QED BY <3>1, <3>2, <3>3, <3>4 DEF Reachable
  <2> QED BY <2>1, <2>2
<1>2. ASSUME NEW k \in Key PROVE WithinBurst(r, k)
  <2>1. ShardIndex(k) \in ShardIndexes
    BY ShardIndexInRange
  <2>2. PICK n \in Nat : n = TimeOf(shards, k)
    BY BucketFacts
  <2>3. PICK m \in Nat : m = TimeOf(r, k) /\ n <= m
    BY <2>1, <2>2 DEF RefreshedFrom, CallTime, TimeOf
  <2>4. EntryOf(shards, k).value \in Nat
    BY BucketFacts
  <2>5. EntryOf(r, k).value = EntryOf(shards, k).value \/ EntryOf(r, k).value = 0
    BY <2>1 DEF RefreshedFrom, EntryOf, Absent
  <2>6. EntryOf(shards, k).value <= Ceiling(Policy[k], n * Policy[k].quota)
    BY <2>2 DEF ReachInv, WithinBurst
  <2>7. /\ Ceiling(Policy[k], n * Policy[k].quota) \in Nat
        /\ Ceiling(Policy[k], m * Policy[k].quota) \in Nat
        /\ Ceiling(Policy[k], n * Policy[k].quota) <= Ceiling(Policy[k], m * Policy[k].quota)
    BY <2>3, BurstFacts
  <2>8. EntryOf(r, k).value <= Ceiling(Policy[k], m * Policy[k].quota)
    BY <2>4, <2>5, <2>6, <2>7
  <2> QED BY <2>3, <2>8 DEF WithinBurst
<1> QED BY <1>1, <1>2

\* Consuming an admitted call: the new arrival times are within the ceiling at its time.
LEMMA AdmittedReach ==
  ASSUME GoodShards(shards), ReachInv, NEW checks \in Runnable, NEW at, CallTime(checks, at),
         Admitted(checks, at)
  PROVE  /\ \A i \in ShardIndexes : Reachable(shards', i)
         /\ \A k \in Key : WithinBurst(shards', k)
<1>1. PICK r : /\ GoodShards(r) /\ RefreshedFrom(shards, r, TouchedShards(checks), at)
               /\ ChargedFrom(r, shards', checks, at)
  BY DEF Admitted
<1>2. \A j \in DOMAIN checks : EvaluateCheck(checks[j], at).kind = "allowed"
  BY DEF Admitted
<1>3. /\ \A i \in ShardIndexes : Reachable(r, i)
      /\ \A k \in Key : WithinBurst(r, k)
  BY <1>1, <1>2, RefreshedReach
<1>4. \A i \in ShardIndexes : shards'[i].latest = r[i].latest
  BY <1>1 DEF ChargedFrom
<1>5. ASSUME NEW k \in Key PROVE WithinBurst(shards', k)
  <2>1. TimeOf(shards', k) = TimeOf(r, k)
    BY <1>4, ShardIndexInRange DEF TimeOf
  <2>2. CASE k \notin KeysOf(checks)
    <3>1. EntryOf(shards', k) = EntryOf(r, k)
      BY <1>1, <2>2 DEF ChargedFrom
    <3> QED BY <1>3, <2>1, <3>1 DEF WithinBurst
  <2>3. CASE k \in KeysOf(checks)
    <3>1. PICK j \in DOMAIN checks : checks[j].key = k
      BY <2>3 DEF KeysOf
    <3>2. TimeOf(shards', k) = at
      BY <3>1, AdmittedBuckets
    <3>3. PICK e : e = EvaluateCheck(checks[j], at)
      OBVIOUS
    <3>4. /\ Answers(checks[j], at, e) /\ e.kind = "allowed"
          /\ Abstract!After(checks[j], at) \in Nat /\ Abstract!Brim(k) \in Nat
      BY <1>2, <3>1, <3>3, CallAnswers
    <3>5. /\ e.allowance.tat = at * Policy[k].quota + Abstract!After(checks[j], at)
          /\ Abstract!After(checks[j], at) <= Abstract!Brim(k)
      BY <3>1, <3>4 DEF Answers, Abstract!Fits
    <3>6. EntryOf(shards', k).value = e.allowance.tat
      BY <1>1, <3>1, <3>3 DEF ChargedFrom
    <3>7. Ceiling(Policy[k], at * Policy[k].quota) = at * Policy[k].quota + Abstract!Brim(k)
      BY DEF Ceiling, Abstract!Brim
    <3>8. at * Policy[k].quota \in Nat
      BY PolicyFacts DEF CallTime
    <3>9. EntryOf(shards', k).value <= Ceiling(Policy[k], at * Policy[k].quota)
      BY <3>4, <3>5, <3>6, <3>7, <3>8
    <3> QED BY <3>2, <3>9 DEF WithinBurst
  <2> QED BY <2>2, <2>3
<1> QED BY <1>3, <1>4, <1>5 DEF Reachable

\* Every step keeps the recorded times within reach and the debts within the bursts.
LEMMA NextReach ==
  ASSUME Inv, ReachInv, Next
  PROVE  ReachInv'
<1>0. GoodShards(shards)
  BY DEF Inv
<1> DEFINE G == /\ \A i \in ShardIndexes : Reachable(shards', i)
                /\ \A k \in Key : WithinBurst(shards', k)
<1>1. G => ReachInv'
  BY DEF ReachInv, Reachable, WithinBurst, EntryOf, TimeOf
<1>2. ASSUME shards' = shards PROVE G
  BY <1>2 DEF ReachInv
<1>3. ASSUME NEW checks \in Runnable, NEW observed \in Time, Run(checks, observed) PROVE G
  <2>1. ASSUME NEW at, CallTime(checks, at), Stopped(checks, at) PROVE G
    <3>1. /\ GoodShards(shards') /\ RefreshedFrom(shards, shards', TouchedShards(checks), at)
          /\ \A j \in DOMAIN checks : EvaluateCheck(checks[j], at).kind # "overflow"
      BY <2>1 DEF Stopped
    <3> QED BY <1>0, <2>1, <3>1, RefreshedReach
  <2>2. ASSUME NEW at, CallTime(checks, at), Admitted(checks, at) PROVE G
    BY <1>0, <2>2, AdmittedReach
  <2>3. Overflowed(checks) => shards' = shards
    BY DEF Overflowed
  <2> HIDE DEF G
  <2> QED BY <1>0, <1>2, <1>3, <2>1, <2>2, <2>3, RunCases
<1>4. ASSUME NEW i \in ShardIndexes, NEW k \in Key, ShardIndex(k) = i,
             \/ shards'[i] = ClearShard(shards[i])
             \/ shards'[i] = EmptyShard
      PROVE  WithinBurst(shards', k)
  <2>1. shards[i] \in ShardType
    BY <1>0, ShardFacts
  <2>2. shards'[i] \in ShardType /\ Stored(shards'[i]) = {}
    BY <1>4, <2>1, ClearShardLemma, EmptyShardLemma
  <2>3. EntryOf(shards', k).value = 0
    BY <1>4, <2>2 DEF EntryOf, Stored, Absent
  <2>4. PICK n \in Nat : n = TimeOf(shards', k)
    BY <1>4, <2>2 DEF TimeOf, ShardType
  <2>5. Ceiling(Policy[k], n * Policy[k].quota) \in Nat
    BY BurstFacts
  <2> QED BY <2>3, <2>4, <2>5 DEF WithinBurst
<1>5. ASSUME shards' = [i \in ShardIndexes |-> ClearShard(shards[i])] PROVE G
  <2>1. ASSUME NEW i \in ShardIndexes PROVE Reachable(shards', i)
    <3>1. shards'[i].latest = shards[i].latest
      BY <1>0, <1>5, ShardFacts, ClearShardLemma
    <3> QED BY <3>1 DEF ReachInv, Reachable
  <2>2. ASSUME NEW k \in Key PROVE WithinBurst(shards', k)
    BY <1>4, <1>5, ShardIndexInRange
  <2> QED BY <2>1, <2>2
<1>6. ASSUME shards' = [i \in ShardIndexes |-> IF i \in poisoned THEN EmptyShard ELSE shards[i]]
      PROVE  G
  <2>1. ASSUME NEW i \in ShardIndexes PROVE Reachable(shards', i)
    <3>1. shards'[i].latest = 0 \/ shards'[i] = shards[i]
      BY <1>6 DEF EmptyShard
    <3> QED BY <3>1 DEF ReachInv, Reachable
  <2>2. ASSUME NEW k \in Key PROVE WithinBurst(shards', k)
    <3>1. CASE ShardIndex(k) \in poisoned
      BY <1>4, <1>6, <3>1, ShardIndexInRange
    <3>2. CASE ShardIndex(k) \notin poisoned
      <4>1. shards'[ShardIndex(k)] = shards[ShardIndex(k)]
        BY <1>6, <3>2, ShardIndexInRange
      <4> QED BY <4>1 DEF ReachInv, WithinBurst, EntryOf, TimeOf
    <3> QED BY <3>1, <3>2
  <2> QED BY <2>1, <2>2
<1> HIDE DEF G
<1> QED BY <1>1, <1>2, <1>3, <1>5, <1>6, StepCases

\* Clamping to a shard's latest time locks no counter out: a reading beyond the arithmetic
\* is never recorded as that time (gcra.rs evaluates before it records), and at the recorded
\* time every stored counter owes at most its burst, whatever the clock did.
THEOREM ClampingLocksNothingOut == Spec => []NoLockout
<1>1. Init => ReachInv
  <2> SUFFICES ASSUME Init PROVE ReachInv
    OBVIOUS
  <2>1. \A i \in ShardIndexes : shards[i].latest = 0 /\ shards[i].entries = [k \in Key |-> Absent]
    BY DEF Init, EmptyShard
  <2>2. ASSUME NEW k \in Key PROVE WithinBurst(shards, k)
    <3>1. EntryOf(shards, k).value = 0 /\ TimeOf(shards, k) = 0
      BY <2>1, ShardIndexInRange DEF EntryOf, TimeOf, Absent
    <3>2. Ceiling(Policy[k], 0 * Policy[k].quota) \in Nat
      BY BurstFacts
    <3> QED BY <3>1, <3>2 DEF WithinBurst
  <2> QED BY <2>1, <2>2 DEF ReachInv, Reachable
<1>2. Inv /\ ReachInv /\ [Next]_vars => ReachInv'
  <2>1. ASSUME ReachInv, UNCHANGED vars PROVE ReachInv'
    BY <2>1 DEF vars, ReachInv, Reachable, WithinBurst, EntryOf, TimeOf
  <2> QED BY <2>1, NextReach
<1>3. ReachInv => NoLockout
  BY DEF ReachInv, Reachable, WithinBurst, EntryOf, TimeOf, NoLockout
<1> QED BY <1>1, <1>2, <1>3, Invariance, PTL DEF Spec

----------------------------------------------------------------------------
(* The rate bound                                                          *)

Grant == [at : Nat, from : Nat, upto : Nat]

LevelOf(s, k) == Level(k, EntryOf(s, k), TimeOf(s, k))

TotalOf(g) == IF g = <<>> THEN 0 ELSE g[Len(g)].upto

\* A bucket at time n with debt d has not forgotten the admissions in its history: from
\* any of them on, all that was admitted is either drained by now or still owed.
Owed(k, g, n, d) ==
    \A i \in DOMAIN g :
        /\ g[i].at <= n /\ g[i].from <= TotalOf(g)
        /\ g[i].at * Policy[k].quota + (TotalOf(g) - g[i].from) * Policy[k].period
             <= n * Policy[k].quota + d

\* The rate bound for one history.
Rated(k, g) ==
    \A i, j \in DOMAIN g :
        i <= j => (g[j].upto - g[i].from) * Policy[k].period <=
                      Policy[k].burst * Policy[k].period + (g[j].at - g[i].at) * Policy[k].quota

HistoryOK(k, g, n, d) == g \in Seq(Grant) /\ Owed(k, g, n, d) /\ Rated(k, g)

RateInv ==
    /\ granted = [k \in Key |-> granted[k]]
    /\ \A k \in Key : HistoryOK(k, granted[k], TimeOf(shards, k), LevelOf(shards, k))

\* The fields of a history.
LEMMA HistoryFacts ==
  ASSUME NEW g \in Seq(Grant)
  PROVE  /\ DOMAIN g = 1..Len(g) /\ Len(g) \in Nat
         /\ \A i \in DOMAIN g : g[i].at \in Nat /\ g[i].from \in Nat /\ g[i].upto \in Nat
         /\ TotalOf(g) \in Nat
<1>1. DOMAIN g = 1..Len(g) /\ Len(g) \in Nat /\ \A i \in DOMAIN g : g[i] \in Grant
  <2> HIDE DEF Grant
  <2> QED OBVIOUS
<1>2. \A i \in DOMAIN g : g[i].at \in Nat /\ g[i].from \in Nat /\ g[i].upto \in Nat
  BY <1>1 DEF Grant
<1>3. g # <<>> => Len(g) \in DOMAIN g
  <2> HIDE DEF Grant
  <2> QED BY <1>1
<1> QED BY <1>1, <1>2, <1>3 DEF TotalOf

\* Draining forgets no admission.
LEMMA OwedAges ==
  ASSUME NEW k \in Key, NEW g, NEW n \in Nat, NEW d \in Nat, NEW m \in Nat, NEW e \in Nat,
         HistoryOK(k, g, n, d), n <= m,
         n * Policy[k].quota + d <= m * Policy[k].quota + e
  PROVE  HistoryOK(k, g, m, e)
<1>0. g \in Seq(Grant)
  BY DEF HistoryOK
<1>1. PICK q \in Nat : q = Policy[k].quota
  BY PolicyFacts
<1>2. PICK p \in Nat : p = Policy[k].period
  BY PolicyFacts
<1>3. ASSUME NEW i \in DOMAIN g
      PROVE  /\ g[i].at <= m /\ g[i].from <= TotalOf(g)
             /\ g[i].at * q + (TotalOf(g) - g[i].from) * p <= m * q + e
  <2>1. /\ g[i].at <= n /\ g[i].from <= TotalOf(g)
        /\ g[i].at * q + (TotalOf(g) - g[i].from) * p <= n * q + d
    BY <1>1, <1>2 DEF HistoryOK, Owed
  <2>2. g[i].at \in Nat /\ g[i].from \in Nat /\ TotalOf(g) \in Nat
    BY <1>0, HistoryFacts
  <2>3. PICK x \in Nat : x = g[i].at * q
    BY <2>2
  <2>4. TotalOf(g) - g[i].from \in Nat
    BY <2>1, <2>2
  <2>5. PICK y \in Nat : y = (TotalOf(g) - g[i].from) * p
    BY <2>4
  <2>6. n * q \in Nat /\ m * q \in Nat
    OBVIOUS
  <2>7. x + y <= n * q + d /\ n * q + d <= m * q + e
    BY <1>1, <2>1, <2>3, <2>5
  <2>8. x + y <= m * q + e
    BY <2>6, <2>7
  <2> QED BY <2>1, <2>2, <2>3, <2>5, <2>8
<1>4. Owed(k, g, m, e)
  BY <1>1, <1>2, <1>3 DEF Owed
<1> QED BY <1>4 DEF HistoryOK

\* An admission that fits the burst keeps every stretch of the history within the rate.
LEMMA OwedCharge ==
  ASSUME NEW k \in Key, NEW g, NEW n \in Nat, NEW d \in Nat, NEW m \in Nat, NEW e \in Nat,
         NEW cost \in Nat,
         HistoryOK(k, g, n, d), n <= m,
         n * Policy[k].quota + d + cost * Policy[k].period <= m * Policy[k].quota + e,
         cost * Policy[k].period <= e, e <= Policy[k].burst * Policy[k].period
  PROVE  HistoryOK(k, Append(g, [at |-> m, from |-> TotalOf(g), upto |-> TotalOf(g) + cost]), m, e)
<1>0. g \in Seq(Grant)
  BY DEF HistoryOK
<1>1. PICK q \in Nat : q = Policy[k].quota
  BY PolicyFacts
<1>2. PICK p \in Nat : p = Policy[k].period
  BY PolicyFacts
<1>3. PICK t \in Nat : t = TotalOf(g)
  BY <1>0, HistoryFacts
<1>4. PICK new \in Grant : new = [at |-> m, from |-> TotalOf(g), upto |-> TotalOf(g) + cost]
  <2>1. [at |-> m, from |-> TotalOf(g), upto |-> TotalOf(g) + cost] \in Grant
    BY <1>3 DEF Grant
  <2> QED BY <2>1
<1>5. new.at = m /\ new.from = t /\ new.upto = t + cost
  BY <1>3, <1>4
<1>6. PICK g2 : g2 = Append(g, new)
  OBVIOUS
<1>7. /\ DOMAIN g = 1..Len(g) /\ Len(g) \in Nat
      /\ \A i \in DOMAIN g : g[i].at \in Nat /\ g[i].from \in Nat /\ g[i].upto \in Nat
  BY <1>0, HistoryFacts
<1>8. /\ g2 \in Seq(Grant) /\ Len(g2) = Len(g) + 1 /\ DOMAIN g2 = 1..(Len(g) + 1)
      /\ g2[Len(g) + 1] = new /\ \A i \in DOMAIN g : g2[i] = g[i]
  <2> HIDE DEF Grant
  <2> QED BY <1>0, <1>6, <1>7
<1>9. g2 # <<>> /\ TotalOf(g2) = t + cost
  BY <1>5, <1>7, <1>8 DEF TotalOf
<1>10. PICK z \in Nat : z = Len(g) + 1 /\ z \in DOMAIN g2 /\ g2[z] = new
  BY <1>7, <1>8
<1>11. \A i \in DOMAIN g2 : i \in DOMAIN g \/ i = z
  BY <1>7, <1>8, <1>10
<1>12. PICK w \in Nat : w = cost * p
  OBVIOUS
<1>13. PICK b \in Nat : b = Policy[k].burst * p
  BY PolicyFacts
<1>14. n * q \in Nat /\ m * q \in Nat
  OBVIOUS
<1>15. n * q + d + w <= m * q + e /\ w <= e /\ e <= b
  BY <1>1, <1>2, <1>12, <1>13
<1>16. ASSUME NEW i \in DOMAIN g2
       PROVE  /\ g2[i].at \in Nat /\ g2[i].from \in Nat
              /\ g2[i].at <= m /\ g2[i].from <= t + cost
              /\ g2[i].at * q + ((t + cost) - g2[i].from) * p <= m * q + e
  <2>1. CASE i \in DOMAIN g
    <3>1. g2[i] = g[i] /\ g[i].at \in Nat /\ g[i].from \in Nat
      BY <1>7, <1>8, <2>1
    <3>2. g[i].at <= n /\ g[i].from <= t /\ g[i].at * q + (t - g[i].from) * p <= n * q + d
      BY <1>1, <1>2, <1>3, <2>1 DEF HistoryOK, Owed
    <3>3. t - g[i].from \in Nat /\ (t + cost) - g[i].from = (t - g[i].from) + cost
      BY <3>1, <3>2
    <3>4. ((t - g[i].from) + cost) * p = (t - g[i].from) * p + w
      BY <1>12, <3>3
    <3>5. g[i].at * q \in Nat /\ (t - g[i].from) * p \in Nat
      BY <3>1, <3>3
    <3>6. g[i].at * q + ((t - g[i].from) * p + w) <= m * q + e
      BY <1>14, <1>15, <3>2, <3>5
    <3> QED BY <3>1, <3>2, <3>3, <3>4, <3>6
  <2>2. CASE i = z
    <3>1. g2[i].at = m /\ g2[i].from = t
      BY <1>5, <1>10, <2>2
    <3>2. (t + cost) - t = cost
      OBVIOUS
    <3>3. m * q + w <= m * q + e
      BY <1>14, <1>15
    <3> QED BY <1>12, <3>1, <3>2, <3>3
  <2> QED BY <1>11, <2>1, <2>2
<1>17. Owed(k, g2, m, e)
  BY <1>1, <1>2, <1>9, <1>16 DEF Owed
<1>18. Rated(k, g2)
  <2> SUFFICES ASSUME NEW i \in DOMAIN g2, NEW j \in DOMAIN g2, i <= j
               PROVE  (g2[j].upto - g2[i].from) * p <= b + (g2[j].at - g2[i].at) * q
    BY <1>1, <1>2, <1>13 DEF Rated
  <2>1. CASE j \in DOMAIN g
    <3>1. i \in DOMAIN g
      BY <1>7, <1>8, <2>1
    <3>2. (g[j].upto - g[i].from) * p <= b + (g[j].at - g[i].at) * q
      BY <1>1, <1>2, <1>13, <2>1, <3>1 DEF HistoryOK, Rated
    <3> QED BY <1>8, <2>1, <3>1, <3>2
  <2>2. CASE j = z
    <3>1. g2[j].at = m /\ g2[j].upto = t + cost
      BY <1>5, <1>10, <2>2
    <3>2. PICK a \in Nat : a = g2[i].at /\ a <= m
      BY <1>16
    <3>3. PICK u \in Nat : u = (t + cost) - g2[i].from
      BY <1>16
    <3>4. a * q + u * p <= m * q + e
      BY <1>16, <3>2, <3>3
    <3>5. (m - a) * q = m * q - a * q /\ a * q \in Nat /\ u * p \in Nat
      BY <3>2
    <3>6. u * p <= b + (m - a) * q
      BY <1>14, <1>15, <3>4, <3>5
    <3> QED BY <3>1, <3>2, <3>3, <3>6
  <2> QED BY <1>11, <2>1, <2>2
<1> QED BY <1>4, <1>6, <1>8, <1>17, <1>18 DEF HistoryOK

\* The empty history is within every bound.
LEMMA EmptyHistory ==
  ASSUME NEW k, NEW n, NEW d
  PROVE  HistoryOK(k, <<>>, n, d)
<1>1. <<>> \in Seq(Grant) /\ DOMAIN <<>> = {}
  <2> HIDE DEF Grant
  <2> QED OBVIOUS
<1> QED BY <1>1 DEF HistoryOK, Owed, Rated

\* A bucket that drains keeps what time and debt add up to.
LEMMA DrainKeeps ==
  ASSUME GoodShards(shards), NEW k \in Key, NEW m \in Nat, TimeOf(shards, k) <= m
  PROVE  /\ LevelOf(shards, k) \in Nat /\ Abstract!Drained(k, m) \in Nat
         /\ TimeOf(shards, k) * Policy[k].quota + LevelOf(shards, k)
              <= m * Policy[k].quota + Abstract!Drained(k, m)
<1>1. PICK q \in Nat : q = Policy[k].quota
  BY PolicyFacts
<1>2. PICK x \in Nat : x = EntryOf(shards, k).value
  BY BucketFacts
<1>3. PICK n \in Nat : n = TimeOf(shards, k)
  BY BucketFacts
<1>4. n * q \in Nat /\ m * q \in Nat /\ n * q <= m * q
  BY <1>3, TimesMonotone
<1>5. LevelOf(shards, k) = Left(x, n * q) /\ Abstract!Drained(k, m) = Left(x, m * q)
  BY <1>1, <1>2, <1>3, DrainedFact DEF LevelOf, Level
<1>6. Left(x, n * q) \in Nat /\ Left(x, m * q) \in Nat /\ n * q + Left(x, n * q) <= m * q + Left(x, m * q)
  BY <1>4 DEF Left
<1> QED BY <1>1, <1>3, <1>5, <1>6

\* A bucket whose history is untouched and that only drained.
LEMMA AgedHistory ==
  ASSUME GoodShards(shards), RateInv, NEW k \in Key, granted'[k] = granted[k],
         TimeOf(shards', k) \in Nat, TimeOf(shards', k) >= TimeOf(shards, k),
         LevelOf(shards', k) = Abstract!Drained(k, TimeOf(shards', k))
  PROVE  HistoryOK(k, granted'[k], TimeOf(shards', k), LevelOf(shards', k))
<1>1. PICK m \in Nat : m = TimeOf(shards', k)
  OBVIOUS
<1>2. PICK n \in Nat : n = TimeOf(shards, k) /\ n <= m
  BY <1>1, BucketFacts
<1>3. PICK d \in Nat : d = LevelOf(shards, k)
  BY <1>1, <1>2, DrainKeeps
<1>4. PICK e \in Nat : e = LevelOf(shards', k)
  BY <1>1, <1>2, DrainKeeps
<1>5. n * Policy[k].quota + d <= m * Policy[k].quota + e
  BY <1>1, <1>2, <1>3, <1>4, DrainKeeps
<1>6. HistoryOK(k, granted[k], n, d)
  BY <1>2, <1>3 DEF RateInv
<1>7. HistoryOK(k, granted[k], m, e)
  BY <1>2, <1>5, <1>6, OwedAges
<1> QED BY <1>1, <1>4, <1>7

\* A bucket an admitted call charges.
LEMMA ChargedHistory ==
  ASSUME GoodShards(shards), RateInv, NEW checks \in Runnable, NEW at, CallTime(checks, at),
         Admitted(checks, at), NEW j \in DOMAIN checks, NEW k \in Key, k = checks[j].key
  PROVE  HistoryOK(k, granted'[k], TimeOf(shards', k), LevelOf(shards', k))
<1> DEFINE c == checks[j]
<1>1. at \in Nat /\ c.cost \in Nat
  BY CallFacts DEF CallTime
<1>2. /\ TimeOf(shards', k) = at /\ TimeOf(shards, k) <= at
      /\ Abstract!Fits(c, at)
      /\ Level(k, EntryOf(shards', k), at) = Abstract!After(c, at)
  <2>1. at >= TimeOf(shards, k)
    BY AdmittedBuckets
  <2>2. TimeOf(shards, k) \in Nat
    BY BucketFacts
  <2> QED BY <1>1, <2>1, <2>2, AdmittedBuckets
<1>3. PICK n \in Nat : n = TimeOf(shards, k)
  BY BucketFacts
<1>4. PICK d \in Nat : d = LevelOf(shards, k)
  BY <1>1, <1>2, DrainKeeps
<1>5. PICK x \in Nat : x = Abstract!Drained(k, at)
  BY <1>1, <1>2, DrainKeeps
<1>6. PICK w \in Nat : w = c.cost * Policy[k].period
  BY <1>1, PolicyFacts
<1>7. PICK e \in Nat : e = x + w
  OBVIOUS
<1>8. e = LevelOf(shards', k) /\ e <= Policy[k].burst * Policy[k].period
  <2>1. Abstract!After(c, at) = x + w
    BY <1>5, <1>6 DEF Abstract!After
  <2>2. Abstract!After(c, at) <= Policy[k].burst * Policy[k].period
    BY <1>2 DEF Abstract!Fits, Abstract!Brim
  <2>3. LevelOf(shards', k) = Abstract!After(c, at)
    BY <1>2 DEF LevelOf
  <2> QED BY <1>7, <2>1, <2>2, <2>3
<1>9. PICK a \in Nat : a = at * Policy[k].quota
  BY <1>1, PolicyFacts
<1>10. PICK b \in Nat : b = n * Policy[k].quota
  BY PolicyFacts
<1>11. b + d <= a + x
  BY <1>1, <1>2, <1>3, <1>4, <1>5, <1>9, <1>10, DrainKeeps
<1>12. b + d + w <= a + e /\ w <= e
  BY <1>7, <1>11
<1>13. HistoryOK(k, granted[k], n, d)
  BY <1>3, <1>4 DEF RateInv
<1>14. HistoryOK(k, Append(granted[k], [at |-> at, from |-> TotalOf(granted[k]),
                                        upto |-> TotalOf(granted[k]) + c.cost]), at, e)
  <2>1. n <= at /\ n * Policy[k].quota + d + c.cost * Policy[k].period <= at * Policy[k].quota + e
        /\ c.cost * Policy[k].period <= e
    BY <1>2, <1>3, <1>6, <1>9, <1>10, <1>12
  <2> QED BY <1>1, <1>8, <1>13, <2>1, OwedCharge
<1>15. granted'[k] = Append(granted[k], [at |-> at, from |-> TotalOf(granted[k]),
                                         upto |-> TotalOf(granted[k]) + c.cost])
  <2>1. k \in KeysOf(checks) /\ Charging(checks, k) = j
    BY ChargingFact
  <2>2. Total(k) = TotalOf(granted[k])
    BY DEF Total, TotalOf
  <2> QED BY <2>1, <2>2 DEF Admitted, Granting
<1> QED BY <1>2, <1>8, <1>14, <1>15

\* Every step keeps the histories within the rate.
LEMMA NextRate ==
  ASSUME Inv, RateInv, Next
  PROVE  RateInv'
<1>0. GoodShards(shards)
  BY DEF Inv
<1> DEFINE G == /\ granted' = [k \in Key |-> granted'[k]]
                /\ \A k \in Key : HistoryOK(k, granted'[k], TimeOf(shards', k), LevelOf(shards', k))
<1>1. G => RateInv'
  <2>1. \A k \in Key : TimeOf(shards, k)' = TimeOf(shards', k) /\ LevelOf(shards, k)' = LevelOf(shards', k)
    BY DEF TimeOf, LevelOf, Level, EntryOf
  <2> QED BY <2>1 DEF RateInv, HistoryOK, Owed, Rated
<1>2. ASSUME shards' = shards, granted' = granted PROVE G
  <2>1. \A k \in Key : TimeOf(shards', k) = TimeOf(shards, k) /\ LevelOf(shards', k) = LevelOf(shards, k)
    BY <1>2
  <2> QED BY <1>2, <2>1 DEF RateInv
<1>3. ASSUME NEW checks \in Runnable, NEW observed \in Time, Run(checks, observed) PROVE G
  <2>1. CASE reply' = Reply("poisoned", checks, 0, 0, <<>>) /\ shards' = shards /\ granted' = granted
    BY <1>2, <2>1
  <2>2. CASE \E at : /\ CallTime(checks, at)
                     /\ Overflowed(checks) \/ Stopped(checks, at) \/ Admitted(checks, at)
    <3>1. PICK at : /\ CallTime(checks, at)
                    /\ Overflowed(checks) \/ Stopped(checks, at) \/ Admitted(checks, at)
      BY <2>2
    <3>2. CASE Overflowed(checks)
      BY <1>2, <3>2 DEF Overflowed
    <3>3. CASE Stopped(checks, at)
      <4>1. granted' = granted /\ RefreshedFrom(shards, shards', TouchedShards(checks), at)
        BY <3>3 DEF Stopped
      <4>2. ASSUME NEW k \in Key
            PROVE  HistoryOK(k, granted'[k], TimeOf(shards', k), LevelOf(shards', k))
        <5>1. /\ TimeOf(shards', k) \in Nat /\ TimeOf(shards', k) >= TimeOf(shards, k)
              /\ LevelOf(shards', k) = Abstract!Drained(k, TimeOf(shards', k))
          BY <1>0, <3>1, <4>1, RefreshedAges DEF LevelOf
        <5> QED BY <1>0, <4>1, <5>1, AgedHistory
      <4>3. granted' = [k \in Key |-> granted'[k]]
        BY <4>1 DEF RateInv
      <4> QED BY <4>2, <4>3
    <3>4. CASE Admitted(checks, at)
      <4>1. granted' = Granting(checks, at)
        BY <3>4 DEF Admitted
      <4>2. granted' = [k \in Key |-> granted'[k]]
        BY <4>1 DEF Granting
      <4>3. ASSUME NEW k \in Key
            PROVE  HistoryOK(k, granted'[k], TimeOf(shards', k), LevelOf(shards', k))
        <5>1. CASE k \in KeysOf(checks)
          <6>1. PICK j \in DOMAIN checks : checks[j].key = k
            BY <5>1 DEF KeysOf
          <6> QED BY <1>0, <3>1, <3>4, <6>1, ChargedHistory
        <5>2. CASE k \notin KeysOf(checks)
          <6>1. granted'[k] = granted[k]
            BY <4>1, <5>2 DEF Granting
          <6>2. /\ TimeOf(shards', k) >= TimeOf(shards, k)
                /\ LevelOf(shards', k) = Abstract!Drained(k, TimeOf(shards', k))
            BY <1>0, <3>1, <3>4, <5>2, AdmittedBuckets DEF LevelOf
          <6>3. TimeOf(shards', k) \in Nat
            <7>1. GoodShards(shards')
              BY <3>4 DEF Admitted
            <7> QED BY <7>1, ShardFacts, ShardIndexInRange DEF TimeOf
          <6> QED BY <1>0, <6>1, <6>2, <6>3, AgedHistory
        <5> QED BY <5>1, <5>2
      <4> QED BY <4>2, <4>3
    <3> QED BY <3>1, <3>2, <3>3, <3>4
  <2> QED BY <1>0, <1>3, <2>1, <2>2, RunCases
<1>4. ASSUME /\ shards' = [i \in ShardIndexes |-> ClearShard(shards[i])]
             /\ Emptied(ShardIndexes)
      PROVE  G
  <2>1. granted' = [k \in Key |-> <<>>]
    BY <1>4, ShardIndexInRange DEF Emptied
  <2> QED BY <2>1, EmptyHistory
<1>5. ASSUME /\ shards' = [i \in ShardIndexes |-> IF i \in poisoned THEN EmptyShard ELSE shards[i]]
             /\ Emptied(poisoned)
      PROVE  G
  <2>1. granted' = [k \in Key |-> IF ShardIndex(k) \in poisoned THEN <<>> ELSE granted[k]]
    BY <1>5 DEF Emptied
  <2>2. ASSUME NEW k \in Key
        PROVE  HistoryOK(k, granted'[k], TimeOf(shards', k), LevelOf(shards', k))
    <3>1. CASE ShardIndex(k) \in poisoned
      <4>1. granted'[k] = <<>>
        BY <2>1, <3>1
      <4> QED BY <4>1, EmptyHistory
    <3>2. CASE ShardIndex(k) \notin poisoned
      <4>1. granted'[k] = granted[k] /\ shards'[ShardIndex(k)] = shards[ShardIndex(k)]
        BY <1>5, <2>1, <3>2, ShardIndexInRange
      <4>2. TimeOf(shards', k) = TimeOf(shards, k) /\ LevelOf(shards', k) = LevelOf(shards, k)
        BY <4>1 DEF TimeOf, LevelOf, Level, EntryOf
      <4> QED BY <4>1, <4>2 DEF RateInv
    <3> QED BY <3>1, <3>2
  <2>3. granted' = [k \in Key |-> granted'[k]]
    BY <2>1
  <2> QED BY <2>2, <2>3
<1> HIDE DEF G
<1> QED BY <1>1, <1>2, <1>3, <1>4, <1>5, StepCases

\* The histories stay within the rate.
THEOREM RateInvariance == Spec => []RateInv
<1>1. Init => RateInv
  <2> SUFFICES ASSUME Init PROVE RateInv
    OBVIOUS
  <2>1. granted = [k \in Key |-> <<>>]
    BY DEF Init
  <2> QED BY <2>1, EmptyHistory DEF RateInv
<1>2. Inv /\ RateInv /\ [Next]_vars => RateInv'
  <2>1. ASSUME RateInv, UNCHANGED vars PROVE RateInv'
    BY <2>1 DEF vars, RateInv, HistoryOK, Owed, Rated, TimeOf, LevelOf, Level, EntryOf
  <2> QED BY <2>1, NextRate
<1> QED BY <1>1, <1>2, Invariance, PTL DEF Spec

\* The rate limit over every stretch of history: between any two admissions of a counter,
\* the admitted cost exceeds the burst by no more than what the rate replenished, whatever
\* is pruned, rounded or batched and however the clock regresses.
THEOREM RateLimit == Spec => []RateBound
<1>1. RateInv => RateBound
  BY DEF RateInv, HistoryOK, Rated, RateBound
<1> QED BY <1>1, RateInvariance, PTL

----------------------------------------------------------------------------
(* Types                                                                   *)

\* Delays and availabilities are natural numbers.
AnswerType(answer) ==
    answer.retry \in Nat /\ \A j \in DOMAIN answer.available : answer.available[j] \in Nat

\* Every answer is a natural delay and natural availabilities.
LEMMA AnswersTyped ==
  ASSUME Inv, Next
  PROVE  AnswerType(reply')
<1>0. GoodShards(shards)
  BY DEF Inv
<1>1. Bare(reply') => AnswerType(reply')
  BY DEF Bare, AnswerType
<1>2. ASSUME NEW checks \in Runnable, NEW observed \in Time, Run(checks, observed) PROVE AnswerType(reply')
  <2>1. CASE reply' = Reply("poisoned", checks, 0, 0, <<>>) \/ Overflowed(checks)
    BY <1>1, <2>1 DEF Reply, Overflowed, Bare
  <2>2. ASSUME NEW at, CallTime(checks, at), Stopped(checks, at) PROVE AnswerType(reply')
    <3>1. PICK f \in DOMAIN checks :
            \/ /\ EvaluateCheck(checks[f], at).kind = "denied"
               /\ reply' = Reply(IF checks[f].mode = "Shadow" THEN "shadow_denied" ELSE "quota_denied",
                                 checks, f, EvaluateCheck(checks[f], at).retry, <<>>)
            \/ \E retry \in Nat : reply' = Reply("capacity_denied", checks, f, retry, <<>>)
      BY <2>2 DEF Stopped
    <3>2. EvaluateCheck(checks[f], at).kind = "denied" => EvaluateCheck(checks[f], at).retry \in Nat
      BY <1>0, <2>2, CallAnswers DEF Answers
    <3>3. reply'.retry \in Nat /\ DOMAIN reply'.available = {}
      BY <3>1, <3>2 DEF Reply
    <3> QED BY <3>3 DEF AnswerType
  <2>3. ASSUME NEW at, CallTime(checks, at), Admitted(checks, at) PROVE AnswerType(reply')
    <3>1. /\ reply'.retry = 0
          /\ reply'.available = [j \in DOMAIN checks |-> EvaluateCheck(checks[j], at).allowance.available]
      BY <2>3 DEF Admitted, Reply
    <3>2. ASSUME NEW j \in DOMAIN checks PROVE EvaluateCheck(checks[j], at).allowance.available \in Nat
      <4>1. checks[j].key \in Key /\ Abstract!After(checks[j], at) \in Nat /\ Abstract!Brim(checks[j].key) \in Nat
            /\ Answers(checks[j], at, EvaluateCheck(checks[j], at))
            /\ EvaluateCheck(checks[j], at).kind = "allowed"
        BY <1>0, <2>3, CallAnswers DEF Admitted
      <4>2. PICK n \in Nat : n = Abstract!Brim(checks[j].key) - Abstract!After(checks[j], at)
        BY <4>1 DEF Answers, Abstract!Fits
      <4>3. PICK p \in Nat \ {0} : p = Policy[checks[j].key].period
        BY <4>1, PolicyFacts
      <4>4. n \div p \in Nat
        BY QuotientBounds
      <4> QED BY <4>1, <4>2, <4>3, <4>4 DEF Answers
    <3> QED BY <3>1, <3>2 DEF AnswerType
  <2> QED BY <1>0, <1>2, <2>1, <2>2, <2>3, RunCases
<1> QED BY <1>1, <1>2, StepCases

\* Every variable stays in its type.
THEOREM TypeCorrectness == Spec => []TypeOK
<1>1. Init => AnswerType(reply)
  <2> SUFFICES ASSUME Init PROVE AnswerType(reply)
    OBVIOUS
  <2>1. reply.retry = 0 /\ DOMAIN reply.available = {}
    BY DEF Init, Plain, Reply
  <2> QED BY <2>1 DEF AnswerType
<1>2. Inv /\ AnswerType(reply) /\ [Next]_vars => AnswerType(reply)'
  <2>1. ASSUME AnswerType(reply), UNCHANGED vars PROVE AnswerType(reply)'
    BY <2>1 DEF AnswerType, vars
  <2>2. ASSUME Inv, Next PROVE AnswerType(reply)'
    BY <2>2, AnswersTyped DEF AnswerType
  <2> QED BY <2>1, <2>2
<1>3. ASSUME Inv, RateInv, AnswerType(reply) PROVE TypeOK
  <2>1. granted \in [Key -> Seq([at : Nat, from : Nat, upto : Nat])]
    <3>1. \A k \in Key : granted[k] \in Seq(Grant)
      BY <1>3 DEF RateInv, HistoryOK
    <3>2. granted \in [Key -> Seq(Grant)]
      <4> HIDE DEF Grant
      <4> QED BY <1>3, <3>1 DEF RateInv
    <3> QED BY <3>2 DEF Grant
  <2> QED BY <1>3, <2>1 DEF TypeOK, Inv, GoodShards, AnswerType
<1> QED BY <1>1, <1>2, <1>3, Invariance, RateInvariance, PTL DEF Spec

=============================================================================
