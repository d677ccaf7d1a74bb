---------------------------- MODULE PgGcraProofs ----------------------------
(***************************************************************************)
(* Proofs about PgGcra, for every number of sessions and counters, every   *)
(* assignment of keys to shards, every mix of policies and calls and every *)
(* width of the integers: the capacity ledger stays exact, the stored rows *)
(* stay sound, no transactions wait for each other in a cycle, and the     *)
(* transactions implement the buckets of module SharedBucket.              *)
(***************************************************************************)
EXTENDS PgGcra, FiniteSetTheorems, TLAPS

----------------------------------------------------------------------------
(* Numbers and sets                                                        *)

\* A nonempty finite set of naturals has a maximum, and Max chooses it.
LEMMA MaxOfFinite ==
  ASSUME NEW S \in SUBSET Nat, IsFiniteSet(S), S # {}
  PROVE  Max(S) \in S /\ \A y \in S : y <= Max(S)
<1> DEFINE HasMax(A) == \E x \in A : \A y \in A : y <= x
<1> DEFINE Bad == {A \in SUBSET S : A # {} /\ ~HasMax(A)}
<1>1. Bad = {}
  <2> SUFFICES ASSUME Bad # {} PROVE FALSE
    OBVIOUS
  <2>1. IsWellFoundedOn(StrictSubsetOrdering(S), SUBSET S)
    BY FS_StrictSubsetOrderingWellFounded, FS_FiniteSubsetsOfFinite
  <2>2. PICK A \in Bad : \A B \in Bad : ~(<<B, A>> \in StrictSubsetOrdering(S))
    <3>1. Bad \subseteq SUBSET S
      OBVIOUS
    <3> HIDE DEF Bad
    <3> QED BY <2>1, <3>1, WFMin
  <2>3. PICK x \in A : TRUE
    BY <2>2
  <2> DEFINE B == A \ {x}
  <2>4. B # A /\ B \subseteq A /\ B \in SUBSET S /\ A \in SUBSET S
    BY <2>2, <2>3
  <2>5. <<B, A>> \in StrictSubsetOrdering(S)
    BY <2>4 DEF StrictSubsetOrdering
  <2>6. B = {} \/ HasMax(B)
    BY <2>2, <2>4, <2>5
  <2>7. HasMax(A)
    <3>1. A \subseteq Nat
      BY <2>2
    <3>2. CASE B = {}
      <4>1. A = {x}
        BY <2>3, <3>2
      <4> QED BY <4>1, <3>1
    <3>3. CASE HasMax(B)
      <4>1. PICK m \in B : \A y \in B : y <= m
        BY <3>3
      <4>2. CASE x <= m
        BY <4>1, <4>2, <2>3
      <4>3. CASE ~(x <= m)
        <5>1. \A y \in A : y <= x
          BY <4>1, <4>3, <2>3, <3>1
        <5> QED BY <5>1, <2>3
      <4> QED BY <4>2, <4>3
    <3> QED BY <2>6, <3>2, <3>3
  <2> QED BY <2>2, <2>7
<1>2. HasMax(S)
  BY <1>1
<1>3. PICK x \in S : \A y \in S : y <= x
  BY <1>2
<1>4. \A y \in S : x >= y
  BY <1>3
<1>5. Max(S) \in S /\ \A y \in S : Max(S) >= y
  BY <1>4 DEF Max
<1> QED BY <1>5

\* A nonempty set of naturals has a minimum, and Min chooses it.
LEMMA MinOfNaturals ==
  ASSUME NEW S \in SUBSET Nat, S # {}
  PROVE  Min(S) \in S /\ \A y \in S : Min(S) <= y
<1> DEFINE Less(x, y) == <<x, y>> \in OpToRel(<, Nat)
<1>1. PICK n \in S : \A m \in S : ~Less(m, n)
  BY NatLessThanWellFounded, WFMin
<1>2. \A x, y \in Nat : x < y => Less(x, y)
  BY DEF OpToRel
<1> HIDE DEF Less
<1>3. \A y \in S : n <= y
  BY <1>1, <1>2
<1> QED BY <1>3 DEF Min

\* Mapping a finite set of indexes through a function yields at most as many values.
LEMMA ImageBound ==
  ASSUME NEW M, IsFiniteSet(M), NEW T, NEW f \in [M -> T]
  PROVE  /\ IsFiniteSet({f[j] : j \in M})
         /\ Cardinality({f[j] : j \in M}) <= Cardinality(M)
<1> DEFINE R == {f[j] : j \in M}
<1>1. f \in Surjection(M, R)
  BY DEF Surjection
<1> QED BY <1>1, FS_Surjection

\* Nonempty finite sets have no infinite ascent in a lexicographic order of two naturals.
LEMMA NoEndlessAscent ==
  ASSUME NEW S, IsFiniteSet(S), S # {}, NEW major \in [S -> Nat], NEW minor \in [S -> Nat],
         \A t \in S : \E u \in S : major[t] < major[u] \/ (major[t] = major[u] /\ minor[t] < minor[u])
  PROVE  FALSE
<1> DEFINE A == {major[t] : t \in S}
<1>1. A \in SUBSET Nat /\ A # {} /\ IsFiniteSet(A)
  <2>1. major \in Surjection(S, A)
    BY DEF Surjection
  <2> QED BY <2>1, FS_Surjection
<1>2. PICK a \in A : \A y \in A : y <= a
  BY <1>1, MaxOfFinite
<1> DEFINE T == {t \in S : major[t] = a}
<1>3. IsFiniteSet(T) /\ T # {} /\ T \subseteq S
  BY <1>2, FS_Subset
<1> DEFINE f == [t \in T |-> minor[t]]
<1> DEFINE B == {f[t] : t \in T}
<1>4. f \in [T -> Nat]
  BY <1>3
<1>5. B \in SUBSET Nat /\ B # {} /\ IsFiniteSet(B)
  <2>1. f \in Surjection(T, B)
    BY DEF Surjection
  <2>2. IsFiniteSet(B)
    <3> HIDE DEF B, f, T
    <3> QED BY <1>3, <2>1, FS_Surjection
  <2> QED BY <1>3, <1>4, <2>2
<1>6. PICK b \in B : \A y \in B : y <= b
  <2> HIDE DEF B
  <2> QED BY <1>5, MaxOfFinite
<1>7. PICK t \in T : minor[t] = b
  BY <1>6
<1>8. PICK u \in S : major[t] < major[u] \/ (major[t] = major[u] /\ minor[t] < minor[u])
  BY <1>3, <1>7
<1>9. major[u] \in A /\ major[u] <= a /\ major[t] = a /\ major[u] \in Nat /\ a \in Nat
  BY <1>1, <1>2, <1>7
<1>10. major[u] = a /\ minor[t] < minor[u] /\ u \in T
  BY <1>8, <1>9
<1>11. minor[u] \in B /\ minor[u] <= b
  BY <1>6, <1>10
<1> QED BY <1>3, <1>7, <1>10, <1>11

\* Arithmetic the SMT backend does not find by itself: products with a common factor.
LEMMA TimesMonotone ==
  ASSUME NEW m \in Nat, NEW n \in Nat, NEW q \in Nat, m <= n
  PROVE  m * q \in Nat /\ n * q \in Nat /\ m * q <= n * q
<1>1. n - m \in Nat /\ n = m + (n - m)
  OBVIOUS
<1>2. (n - m) * q \in Nat /\ m * q \in Nat /\ n * q \in Nat
  BY <1>1
<1>3. n * q = m * q + (n - m) * q
  BY <1>1
<1> QED BY <1>2, <1>3

\* The quotient is the largest multiple within the dividend.
LEMMA QuotientBounds ==
  ASSUME NEW a \in Nat, NEW q \in Nat \ {0}
  PROVE  /\ a \div q \in Nat
         /\ (a \div q) * q \in Nat
         /\ (a \div q) * q <= a
         /\ a < (a \div q) * q + q
<1>1. a = q * (a \div q) + (a % q) /\ 0 <= a % q /\ a % q < q /\ a % q \in Nat /\ a \div q \in Int
  OBVIOUS
<1>2. a \div q \in Nat
  OBVIOUS
<1> QED BY <1>1, <1>2

\* Division rounding up: the least number of divisors that covers the dividend.
LEMMA CeilingDivision ==
  ASSUME NEW a \in Nat, NEW q \in Nat \ {0}
  PROVE  /\ (a + q - 1) \div q \in Nat
         /\ a > 0 => (a + q - 1) \div q > 0
         /\ \A n \in Nat : (a + q - 1) \div q <= n <=> a <= n * q
<1> DEFINE d == (a + q - 1) \div q
<1>1. d \in Nat /\ d * q \in Nat /\ d * q <= a + q - 1 /\ a + q - 1 < d * q + q
  <2>1. a + q - 1 \in Nat
    OBVIOUS
  <2> QED BY <2>1, QuotientBounds
<1> HIDE DEF d
<1>2. ASSUME NEW n \in Nat, d <= n PROVE a <= n * q
  <2>1. d * q <= n * q /\ n * q \in Nat
    BY <1>1, <1>2, TimesMonotone
  <2> QED BY <1>1, <2>1
<1>3. ASSUME NEW n \in Nat, a <= n * q PROVE d <= n
  <2> SUFFICES ASSUME n + 1 <= d PROVE FALSE
    BY <1>1
  <2>1. (n + 1) * q <= d * q
    BY <1>1, TimesMonotone
  <2>2. (n + 1) * q = n * q + q /\ n * q \in Nat
    OBVIOUS
  <2> QED BY <1>1, <1>3, <2>1, <2>2
<1>4. a > 0 => d > 0
  <2>1. d = 0 => d * q = 0
    OBVIOUS
  <2> QED BY <1>1, <2>1
<1> QED BY <1>1, <1>2, <1>3, <1>4 DEF d

\* Whole multiples come out of a division that rounds up.
LEMMA CeilingShift ==
  ASSUME NEW n \in Nat, NEW b \in Nat, NEW q \in Nat \ {0}
  PROVE  (n * q + b + q - 1) \div q = n + (b + q - 1) \div q
<1> DEFINE c == (n * q + b + q - 1) \div q
<1> DEFINE d == (b + q - 1) \div q
<1>0. n * q \in Nat
  OBVIOUS
<1>1. c \in Nat /\ \A m \in Nat : c <= m <=> n * q + b <= m * q
  BY <1>0, CeilingDivision
<1>2. d \in Nat /\ \A m \in Nat : d <= m <=> b <= m * q
  BY CeilingDivision
<1> HIDE DEF c, d
<1>3. c <= n + d
  <2>1. b <= d * q
    BY <1>2
  <2>2. (n + d) * q = n * q + d * q /\ d * q \in Nat
    BY <1>2
  <2>3. n + d \in Nat
    BY <1>2
  <2> QED BY <1>0, <1>1, <2>1, <2>2, <2>3
<1>4. n + d <= c
  <2>1. n * q + b <= c * q /\ c * q \in Nat
    BY <1>1
  <2>2. n <= c
    <3> SUFFICES ASSUME c + 1 <= n PROVE FALSE
      BY <1>1
    <3>1. (c + 1) * q <= n * q
      BY <1>1, TimesMonotone
    <3>2. (c + 1) * q = c * q + q
      BY <1>1
    <3> QED BY <1>0, <2>1, <3>1, <3>2
  <2>3. (c - n) * q = c * q - n * q /\ c - n \in Nat
    BY <1>1, <2>2
  <2>4. b <= (c - n) * q
    BY <1>0, <2>1, <2>3
  <2> QED BY <1>1, <1>2, <2>3, <2>4
<1> QED BY <1>1, <1>2, <1>3, <1>4 DEF c, d

----------------------------------------------------------------------------
(* The inductive invariant                                                 *)

RowType == [tat : 0..WideMax, expires : 0..BigintMax]

\* A stored row, or one about to be, has debt and the expiry that belongs to it.
SoundRow(k, row) == row # NoRow => row.tat > 0 /\ row.expires = DivCeil(row.tat, Policy[k].quota)

\* The rows as t's commit would leave them.
After(t) == [k \in Key |-> IF k \in DOMAIN work[t] THEN work[t][k] ELSE rows[k]]

RowsIn(table, s) == {k \in Key : table[k] # NoRow /\ Shard[k] = s}

Within(n) == \E v \in Session : n <= MaxRows[v]

\* Shards are locked in ascending order, and only by transactions that are running.
LocksOK(t) ==
    /\ pc[t] \in {"idle", "committed", "probe"} => Held(t) = {}
    /\ pc[t] = "locking" =>
        /\ IsCheck(op[t])
        /\ ShardsOf(op[t].checks) = Held(t) \cup wanted[t]
        /\ \A s \in Held(t), r \in wanted[t] : s < r
    /\ pc[t] \in {"probe", "delete"} => ~IsCheck(op[t])

\* A transaction that has yet to write holds no uncommitted rows; one that has written
\* holds the shard of everything it wrote, and the count it has for each of them is the
\* number of rows its commit will leave there.
WorkOK(t) ==
    /\ pc[t] \notin {"ready", "committing"} => work[t] = Nothing /\ books[t] = Nothing
    /\ pc[t] \in {"ready", "committing"} =>
        /\ DOMAIN books[t] = Held(t)
        /\ \A k \in DOMAIN work[t] :
              k \in Key /\ Shard[k] \in Held(t) /\ work[t][k] \in RowType /\ SoundRow(k, work[t][k])
        /\ \A s \in Held(t) :
              /\ books[t][s] \in [count : Nat, observed : 0..peak]
              /\ ledger[s].observed <= books[t][s].observed
              /\ books[t][s].count = Cardinality(RowsIn(After(t), s))
              /\ Within(books[t][s].count)

SessionOK(t) == LocksOK(t) /\ WorkOK(t)

SessionsInv == \A t \in Session : SessionOK(t)

RowsSound == \A k \in Key : SoundRow(k, rows[k])

NoOperation == [kind |-> "cleanup", checks |-> <<>>]

\* Which functions the session-indexed variables are.
Shape ==
    /\ op \in [Session -> Operation \cup {NoOperation}]
    /\ DOMAIN work = Session /\ DOMAIN books = Session /\ DOMAIN reply = Session

Inv == TypeOK /\ Shape /\ LedgerExact /\ RowsSound /\ SessionsInv

----------------------------------------------------------------------------
(* Evaluation                                                              *)

\* How far a charge would go beyond the burst.
Over(p, cost, now, tat) ==
    (AtLeast(tat, now * p.quota) + cost * p.period) - (now * p.quota + p.burst * p.period)

\* GcraEvaluate (runlimit-core/src/gcra.rs): one of three results; an allowance leaves
\* debt, within the arithmetic's width and with the expiry of its arrival time.
LEMMA Evaluation ==
  ASSUME NEW p \in GcraPolicy, NEW cost \in Nat \ {0}, NEW now \in Nat, NEW tat \in Nat,
         NEW r, r = GcraEvaluate(p, cost, now, tat)
  PROVE  /\ r.kind \in {"allowed", "denied", "overflow"}
         /\ r.kind = "allowed" =>
              /\ r.allowance.tat \in 1..WideMax /\ r.allowance.expires \in Nat
              /\ r.allowance.expires = DivCeil(r.allowance.tat, p.quota)
              /\ r.allowance.tat = AtLeast(tat, now * p.quota) + cost * p.period
              /\ r.allowance.tat <= now * p.quota + p.burst * p.period
         /\ r.kind = "denied" =>
              Over(p, cost, now, tat) > 0 /\ r.retry = DivCeil(Over(p, cost, now, tat), p.quota)
<1> DEFINE a == now * p.quota
<1> DEFINE b == cost * p.period
<1> DEFINE c == p.burst * p.period
<1> DEFINE q == p.quota
<1>1. p.quota \in Nat \ {0} /\ p.period \in Nat \ {0} /\ p.burst \in Nat \ {0}
  BY DEF GcraPolicy
<1>2. a \in Nat /\ b \in Nat \ {0} /\ c \in Nat /\ q \in Nat \ {0}
  BY <1>1
<1> DEFINE candidate == AtLeast(tat, a) + b
<1> DEFINE over == candidate - (a + c)
<1> DEFINE retry == DivCeil(over, q)
<1> DEFINE replenish == DivCeil(candidate - a, q)
<1> DEFINE available == ((a + c) - candidate) \div p.period
<1>3. r = CASE candidate > WideMax \/ a + c > WideMax -> Overflow
            [] candidate <= WideMax /\ a + c <= WideMax /\ candidate > a + c ->
                 IF retry > DelayMax THEN Overflow ELSE Result("denied", NoAllowance, retry)
            [] OTHER ->
                 IF now + replenish > WideMax \/ replenish > DelayMax \/ available > DelayMax
                 THEN Overflow
                 ELSE Result("allowed",
                             [tat |-> candidate, expires |-> now + replenish,
                              available |-> available], 0)
  BY DEF GcraEvaluate, Ceiling, Excess
<1>4. candidate \in Nat \ {0} /\ candidate >= a /\ candidate - a \in Nat
  BY <1>2 DEF AtLeast
<1>5. replenish \in Nat /\ now + replenish = DivCeil(candidate, q)
  <2> HIDE DEF candidate
  <2>1. replenish \in Nat
    BY <1>2, <1>4, CeilingDivision DEF DivCeil
  <2>2. now + replenish = (now * q + (candidate - a) + q - 1) \div q
    <3>1. \A x \in Nat : (now * q + x + q - 1) \div q = now + (x + q - 1) \div q
      BY <1>2, CeilingShift
    <3> QED BY <1>4, <3>1 DEF DivCeil
  <2>3. now * q + (candidate - a) + q - 1 = candidate + q - 1
    BY <1>2, <1>4
  <2> QED BY <2>1, <2>2, <2>3 DEF DivCeil
<1>6. GcraAssumption
  BY GcraAssumption
<1>7. \/ r = Overflow
      \/ candidate > a + c /\ r = Result("denied", NoAllowance, retry)
      \/ /\ candidate <= WideMax /\ candidate <= a + c
         /\ r = Result("allowed", [tat |-> candidate, expires |-> now + replenish,
                                   available |-> available], 0)
  <2> HIDE DEF candidate, retry, replenish, available, a, c
  <2>1. CASE candidate > WideMax \/ a + c > WideMax
    BY <1>2, <1>3, <1>4, <2>1, GcraAssumption
  <2>2. CASE ~(candidate > WideMax \/ a + c > WideMax) /\ candidate > a + c
    <3>1. candidate <= WideMax /\ a + c <= WideMax
      BY <1>2, <1>4, <2>2, GcraAssumption
    <3> QED BY <1>3, <2>2, <3>1
  <2>3. CASE ~(candidate > WideMax \/ a + c > WideMax) /\ ~(candidate > a + c)
    <3>1. candidate <= WideMax /\ candidate <= a + c
      BY <1>2, <1>4, <2>3, GcraAssumption
    <3> QED BY <1>3, <2>3, <3>1
  <2> QED BY <2>1, <2>2, <2>3
<1> HIDE DEF candidate, retry, replenish, available, a, c, q, over
<1>8. CASE r = Overflow
  BY <1>8 DEF Overflow, Result
<1>9. CASE candidate > a + c /\ r = Result("denied", NoAllowance, retry)
  <2>1. r.kind = "denied" /\ r.retry = retry
    BY <1>9 DEF Result
  <2>2. over > 0
    BY <1>2, <1>4, <1>9 DEF over
  <2>3. over = Over(p, cost, now, tat)
    BY DEF over, candidate, a, b, c, Over
  <2>4. r.kind # "allowed" /\ r.kind \in {"allowed", "denied", "overflow"}
    BY <2>1
  <2> QED BY <2>1, <2>2, <2>3, <2>4 DEF retry, q
<1>10. CASE /\ candidate <= WideMax /\ candidate <= a + c
            /\ r = Result("allowed", [tat |-> candidate, expires |-> now + replenish,
                                      available |-> available], 0)
  <2>1. r.kind = "allowed" /\ r.allowance.tat = candidate /\ r.allowance.expires = now + replenish
    BY <1>10 DEF Result
  <2>2. candidate \in 1..WideMax
    BY <1>4, <1>10, GcraAssumption
  <2> QED BY <1>5, <1>10, <2>1, <2>2 DEF candidate, a, c, q
<1> QED BY <1>7, <1>8, <1>9, <1>10

----------------------------------------------------------------------------
(* Shards, keys and calls                                                  *)

\* Every counter has a shard and a well-formed policy.
LEMMA ShardFacts ==
  /\ Shards \subseteq Nat
  /\ \A k \in Key : Shard[k] \in Shards /\ Policy[k] \in GcraPolicy
BY PgGcraAssumption DEF Shards

\* A call's checks are a sequence of checks of known counters.
LEMMA ChecksFacts ==
  ASSUME NEW o \in Operation \cup {NoOperation}
  PROVE  /\ o.checks \in Seq([key : Key, cost : Nat, mode : QuotaMode])
         /\ DOMAIN o.checks = 1..Len(o.checks) /\ Len(o.checks) \in Nat
         /\ \A j \in DOMAIN o.checks :
               /\ o.checks[j].key \in Key
               /\ o.checks[j].cost \in 1..Policy[o.checks[j].key].burst /\ o.checks[j].cost \in Nat \ {0}
         /\ ShardsOf(o.checks) \subseteq Shards
<1> DEFINE c == o.checks
<1> DEFINE Item == [key : Key, cost : Nat, mode : QuotaMode]
<1>1. c \in Seq(Item) /\ \A j \in DOMAIN c : c[j].cost \in 1..Policy[c[j].key].burst
  <2>1. CASE o \in Operation
    BY <2>1, PgGcraAssumption DEF ValidCost
  <2>2. CASE o = NoOperation
    <3>1. c = <<>>
      BY <2>2 DEF NoOperation
    <3> HIDE DEF c
    <3>2. DOMAIN c = {}
      BY <3>1
    <3> QED BY <3>1, <3>2
  <2> QED BY <2>1, <2>2
<1> HIDE DEF c, Item
<1>2. DOMAIN c = 1..Len(c) /\ Len(c) \in Nat /\ \A j \in DOMAIN c : c[j] \in Item
  BY <1>1
<1>3. \A j \in DOMAIN c : c[j].key \in Key /\ c[j].cost \in Nat
  BY <1>2 DEF Item
<1>4. \A j \in DOMAIN c : c[j].cost \in Nat \ {0}
  <2> SUFFICES ASSUME NEW j \in DOMAIN c PROVE c[j].cost \in Nat \ {0}
    OBVIOUS
  <2>1. Policy[c[j].key].burst \in Nat
    BY <1>3, ShardFacts DEF GcraPolicy
  <2> QED BY <1>1, <2>1
<1>5. ShardsOf(c) \subseteq Shards
  BY <1>3, ShardFacts DEF ShardsOf
<1> QED BY <1>1, <1>2, <1>3, <1>4, <1>5 DEF c, Item

\* Sets of counters are finite.
LEMMA KeySets ==
  ASSUME NEW K \in SUBSET Key, NEW s
  PROVE  /\ IsFiniteSet(K) /\ IsFiniteSet({k \in K : Shard[k] = s})
         /\ InShard(K, s) = Cardinality({k \in K : Shard[k] = s}) /\ InShard(K, s) \in Nat
         /\ Cardinality(K) \in Nat
<1>1. IsFiniteSet(K) /\ IsFiniteSet({k \in K : Shard[k] = s})
  BY FS_Subset, PgGcraAssumption
<1> QED BY <1>1, FS_CardinalityType DEF InShard

\* The ledger is exact: in the form the proofs use.
LEMMA LedgerCounts ==
  ASSUME LedgerExact, NEW s \in Shards
  PROVE  ledger[s].count = Cardinality(RowsIn(rows, s)) /\ Within(ledger[s].count)
<1>1. {k \in {j \in Key : Exists(j)} : Shard[k] = s} = RowsIn(rows, s)
  BY DEF RowsIn, Exists
<1> QED BY <1>1 DEF LedgerExact, InShard, Within

\* A count that agrees with the rows of each shard is an exact ledger.
LEMMA CountsLedger ==
  ASSUME \A s \in Shards : ledger[s].count = Cardinality(RowsIn(rows, s)) /\ Within(ledger[s].count)
  PROVE  LedgerExact
<1> SUFFICES ASSUME NEW s \in Shards
             PROVE  /\ ledger[s].count = InShard({k \in Key : Exists(k)}, s)
                    /\ \E t \in Session : ledger[s].count <= MaxRows[t]
  BY DEF LedgerExact
<1>1. {k \in {j \in Key : Exists(j)} : Shard[k] = s} = RowsIn(rows, s)
  BY DEF RowsIn, Exists
<1> QED BY <1>1 DEF InShard, Within

----------------------------------------------------------------------------
(* A session is not disturbed by what does not concern it                  *)

\* What u has locked stays as u has seen it.
LEMMA Undisturbed ==
  ASSUME Inv, NEW u \in Session,
         pc'[u] = pc[u], op'[u] = op[u], wanted'[u] = wanted[u],
         work'[u] = work[u], books'[u] = books[u],
         \A s \in Shards : holder'[s] = u <=> holder[s] = u,
         \A s \in Held(u) : ledger'[s] = ledger[s],
         \A k \in Key : Shard[k] \in Held(u) => rows'[k] = rows[k],
         peak \in Nat, peak' \in Nat, peak <= peak'
  PROVE  SessionOK(u)'
<1>1. SessionOK(u) /\ Held(u)' = Held(u)
  BY DEF Inv, SessionsInv, Held
<1>2. LocksOK(u)'
  BY <1>1 DEF SessionOK, LocksOK, ShardsOf, IsCheck
<1>3. WorkOK(u)'
  <2>1. CASE pc[u] \notin {"ready", "committing"}
    BY <1>1, <2>1 DEF SessionOK, WorkOK
  <2>2. CASE pc[u] \in {"ready", "committing"}
    <3>1. ASSUME NEW s \in Held(u) PROVE RowsIn(After(u), s)' = RowsIn(After(u), s)
      <4>1. \A k \in Key : Shard[k] = s => After(u)'[k] = After(u)[k]
        BY DEF After
      <4> QED BY <4>1 DEF RowsIn
    <3>2. \A s \in Held(u) :
              /\ books[u][s] \in [count : Nat, observed : 0..peak]
              /\ ledger[s].observed <= books[u][s].observed
              /\ books[u][s].count = Cardinality(RowsIn(After(u), s))
              /\ Within(books[u][s].count)
      BY <1>1, <2>2 DEF SessionOK, WorkOK
    <3>3. ASSUME NEW s \in Held(u)
          PROVE  /\ books'[u][s] \in [count : Nat, observed : 0..peak']
                 /\ ledger'[s].observed <= books'[u][s].observed
                 /\ books'[u][s].count = Cardinality(RowsIn(After(u), s)')
                 /\ Within(books'[u][s].count)
      <4>1. books[u][s] \in [count : Nat, observed : 0..peak']
        BY <3>2
      <4> QED BY <3>1, <3>2, <4>1
    <3>4. DOMAIN books'[u] = Held(u)' /\ \A k \in DOMAIN work'[u] :
              k \in Key /\ Shard[k] \in Held(u)' /\ work'[u][k] \in RowType /\ SoundRow(k, work'[u][k])
      BY <1>1, <2>2 DEF SessionOK, WorkOK
    <3> QED BY <1>1, <2>2, <3>3, <3>4 DEF WorkOK, Within
  <2> QED BY <2>1, <2>2
<1> QED BY <1>2, <1>3 DEF SessionOK

Phase == BeforeCommit \cup {"idle", "committing", "committed"}

AnyOperation == Operation \cup {NoOperation}

\* The new value of every session-indexed variable is well typed, and only session t's
\* part of it is new; locks change hands only between session t and nobody.
StepType(t) ==
    /\ pc' \in [Session -> Phase] /\ op' \in [Session -> AnyOperation]
    /\ wanted' \in [Session -> SUBSET Shards]
    /\ DOMAIN work' = Session /\ DOMAIN books' = Session /\ DOMAIN reply' = Session
    /\ \A u \in Session \ {t} :
        /\ pc'[u] = pc[u] /\ op'[u] = op[u] /\ wanted'[u] = wanted[u]
        /\ work'[u] = work[u] /\ books'[u] = books[u] /\ reply'[u] = reply[u]

StepLocks(t) ==
    /\ holder' \in [Shards -> Session \cup {None}]
    /\ \A s \in Shards : \/ holder'[s] = holder[s]
                         \/ holder'[s] = t /\ holder[s] = None
                         \/ holder[s] = t /\ holder'[s] = None

\* The types before a step, in the form the steps need them.
LEMMA Typed ==
  ASSUME Inv, NEW t \in Session
  PROVE  /\ pc \in [Session -> Phase] /\ op \in [Session -> AnyOperation]
         /\ wanted \in [Session -> SUBSET Shards]
         /\ DOMAIN work = Session /\ DOMAIN books = Session /\ DOMAIN reply = Session
         /\ holder \in [Shards -> Session \cup {None}]
         /\ SessionOK(t) /\ LocksOK(t) /\ WorkOK(t)
         /\ op[t] \in AnyOperation
         /\ t # None
<1>1. op \in [Session -> AnyOperation]
  BY DEF Inv, Shape, AnyOperation
<1> QED BY <1>1, PgGcraAssumption DEF Inv, TypeOK, Shape, SessionsInv, SessionOK, Phase

\* What is written is on known counters, and booked in shards that are held.
LEMMA WritesTyped ==
  ASSUME NEW t, WorkOK(t)
  PROVE  DOMAIN work[t] \subseteq Key /\ DOMAIN books[t] \subseteq Held(t)
<1>1. DOMAIN Nothing = {}
  BY DEF Nothing
<1> QED BY <1>1 DEF WorkOK

\* A step of t that leaves the stored rows alone preserves the invariant.
LEMMA StepInv ==
  ASSUME Inv, NEW t \in Session, UNCHANGED <<rows, ledger, clock, peak>>,
         StepType(t), StepLocks(t), SessionOK(t)'
  PROVE  Inv'
<1>1. SessionsInv'
  <2> SUFFICES ASSUME NEW u \in Session PROVE SessionOK(u)'
    BY DEF SessionsInv
  <2>1. CASE u = t
    BY <2>1
  <2>2. CASE u # t
    <3>1. \A s \in Shards : holder'[s] = u <=> holder[s] = u
      BY <2>2, PgGcraAssumption DEF StepLocks
    <3>2. peak \in Nat
      BY PgGcraAssumption DEF Inv, TypeOK
    <3> QED BY <2>2, <3>1, <3>2, Undisturbed DEF StepType
  <2> QED BY <2>1, <2>2
<1>2. TypeOK'
  <2>1. ASSUME NEW u \in Session
        PROVE  DOMAIN work'[u] \subseteq Key /\ DOMAIN books'[u] \subseteq Held(u)'
    <3>1. WorkOK(u)'
      BY <1>1 DEF SessionsInv, SessionOK
    <3>2. DOMAIN Nothing = {}
      BY DEF Nothing
    <3> QED BY <3>1, <3>2 DEF WorkOK
  <2> QED BY <2>1 DEF Inv, TypeOK, StepType, StepLocks, Phase
<1>3. Shape'
  BY DEF Shape, StepType, AnyOperation
<1>4. LedgerExact'
  BY DEF Inv, LedgerExact, Exists
<1>5. RowsSound'
  BY DEF Inv, RowsSound, SoundRow
<1> QED BY <1>1, <1>2, <1>3, <1>4, <1>5 DEF Inv

----------------------------------------------------------------------------
(* Steps that commit nothing                                               *)

\* Begin preserves the invariant.
LEMMA BeginInv ==
  ASSUME Inv, NEW t \in Session, Begin(t)
  PROVE  Inv'
<1>1. UNCHANGED <<rows, ledger, clock, peak>> /\ UNCHANGED <<holder, work, books>> /\ pc[t] = "idle"
  BY DEF Begin
<1>2. PICK o \in Operation :
        LET valid == IsCheck(o) => ValidateBatch(o.checks, MaxBatchSize) = "Valid"
        IN  /\ op' = [op EXCEPT ![t] = o]
            /\ pc' = [pc EXCEPT ![t] = IF ~valid THEN "idle"
                                       ELSE IF IsCheck(o) THEN "locking" ELSE "probe"]
            /\ wanted' = [wanted EXCEPT ![t] = IF valid THEN ShardsOf(o.checks) ELSE {}]
            /\ reply' = [reply EXCEPT ![t] = IF valid THEN Pending ELSE Reply("invalid", 0, 0)]
  BY DEF Begin
<1>3. LocksOK(t) /\ WorkOK(t) /\ Held(t) = {} /\ work[t] = Nothing /\ books[t] = Nothing
  BY <1>1, Typed DEF LocksOK, WorkOK
<1>4. ShardsOf(o.checks) \subseteq Shards /\ o \in AnyOperation
  BY ChecksFacts DEF AnyOperation
<1>5. StepType(t)
  BY <1>1, <1>2, <1>4, Typed DEF StepType, Phase, BeforeCommit
<1>6. StepLocks(t) /\ Held(t)' = {}
  BY <1>1, <1>3, Typed DEF StepLocks, Held
<1>7. op'[t] = o /\ pc'[t] \in {"idle", "locking", "probe"} /\ work'[t] = Nothing /\ books'[t] = Nothing
  BY <1>1, <1>2, <1>3, Typed
<1>8. pc'[t] = "locking" => IsCheck(o) /\ wanted'[t] = ShardsOf(o.checks)
  BY <1>2, Typed
<1>9. pc'[t] = "probe" => ~IsCheck(o)
  BY <1>2, Typed
<1>10. LocksOK(t)'
  BY <1>6, <1>7, <1>8, <1>9 DEF LocksOK
<1>11. WorkOK(t)'
  BY <1>7 DEF WorkOK
<1> QED BY <1>1, <1>5, <1>6, <1>10, <1>11, StepInv DEF SessionOK

\* Taking the least shard still wanted keeps the locks in ascending order.
LEMMA LockShardInv ==
  ASSUME Inv, NEW t \in Session, LockShard(t)
  PROVE  Inv'
<1>1. /\ UNCHANGED <<rows, ledger, clock, peak>> /\ UNCHANGED <<pc, op, work, books, reply>>
      /\ pc[t] = "locking"
  BY DEF LockShard
<1>2. PICK s \in Shards : /\ NextShard(t, s) /\ holder[s] = None
                          /\ holder' = [holder EXCEPT ![s] = t]
                          /\ wanted' = [wanted EXCEPT ![t] = @ \ {s}]
  BY DEF LockShard
<1>3. wanted'[t] = wanted[t] \ {s} /\ s \in wanted[t] /\ \A r \in wanted[t] : s <= r
  BY <1>2, Typed DEF NextShard
<1>4. Held(t)' = Held(t) \cup {s}
  BY <1>2, Typed DEF Held
<1>5. StepType(t) /\ StepLocks(t)
  BY <1>1, <1>2, Typed DEF StepType, StepLocks
<1>6. LocksOK(t)'
  <2>1. LocksOK(t) /\ wanted[t] \subseteq Nat /\ s \in Nat
    BY Typed, ShardFacts
  <2>2. \A r \in wanted'[t] : s < r
    BY <1>3, <2>1
  <2>3. \A h \in Held(t)', r \in wanted'[t] : h < r
    BY <1>1, <1>3, <1>4, <2>1, <2>2 DEF LocksOK
  <2>4. ShardsOf(op[t].checks)' = Held(t)' \cup wanted'[t]
    BY <1>1, <1>3, <1>4, <2>1 DEF LocksOK, ShardsOf
  <2> QED BY <1>1, <2>1, <2>3, <2>4 DEF LocksOK
<1>7. WorkOK(t)'
  <2>1. work[t] = Nothing /\ books[t] = Nothing
    BY <1>1, Typed DEF WorkOK
  <2> QED BY <1>1, <2>1 DEF WorkOK
<1> QED BY <1>1, <1>5, <1>6, <1>7, StepInv DEF SessionOK

\* A step of t that changes its reply, and its phase for one that holds and has written
\* as little or as much.
LEMMA PhaseInv ==
  ASSUME Inv, NEW t \in Session, UNCHANGED <<rows, ledger, clock, peak>>,
         UNCHANGED <<holder, op, wanted, work, books>>,
         DOMAIN reply' = Session, \A u \in Session \ {t} : reply'[u] = reply[u],
         NEW phase \in Phase, pc' = [pc EXCEPT ![t] = phase],
         \/ phase = pc[t]
         \/ pc[t] = "ready" /\ phase = "committing"
         \/ pc[t] = "committed" /\ phase = "idle"
  PROVE  Inv'
<1>1. StepType(t) /\ StepLocks(t) /\ pc'[t] = phase
  BY Typed DEF StepType, StepLocks
<1>2. LocksOK(t)' /\ WorkOK(t)'
  <2>1. /\ Held(t)' = Held(t) /\ After(t)' = After(t) /\ ShardsOf(op[t].checks)' = ShardsOf(op[t].checks)
        /\ \A s : RowsIn(After(t), s)' = RowsIn(After(t), s)
    BY DEF Held, After, ShardsOf, RowsIn
  <2>2. LocksOK(t) /\ WorkOK(t)
    BY Typed
  <2>3. LocksOK(t)'
    BY <1>1, <2>1, <2>2 DEF LocksOK
  <2>4. WorkOK(t)'
    BY <1>1, <2>1, <2>2 DEF WorkOK
  <2> QED BY <2>3, <2>4
<1> QED BY <1>1, <1>2, StepInv DEF SessionOK

\* Answering a call keeps the invariant.
LEMMA ReplyInv ==
  ASSUME Inv, NEW t \in Session, UNCHANGED <<rows, ledger, clock, peak>>,
         UNCHANGED <<holder, pc, op, wanted, work, books>>,
         NEW r, reply' = [reply EXCEPT ![t] = r]
  PROVE  Inv'
<1>1. pc' = [pc EXCEPT ![t] = pc[t]] /\ pc[t] \in Phase
  BY Typed
<1>2. DOMAIN reply' = Session /\ \A u \in Session \ {t} : reply'[u] = reply[u]
  BY Typed
<1> QED BY <1>1, <1>2, PhaseInv

\* SendCommit preserves the invariant.
LEMMA SendCommitInv ==
  ASSUME Inv, NEW t \in Session, SendCommit(t)
  PROVE  Inv'
<1>1. /\ UNCHANGED <<rows, ledger, clock, peak>> /\ UNCHANGED <<holder, op, wanted, work, books, reply>>
      /\ pc[t] = "ready" /\ pc' = [pc EXCEPT ![t] = "committing"]
  BY DEF SendCommit
<1> QED BY <1>1, Typed, PhaseInv DEF Phase

\* Confirm preserves the invariant.
LEMMA ConfirmInv ==
  ASSUME Inv, NEW t \in Session, Confirm(t)
  PROVE  Inv'
<1>1. /\ UNCHANGED <<rows, ledger, clock, peak>> /\ UNCHANGED <<holder, op, wanted, work, books>>
      /\ pc[t] = "committed" /\ pc' = [pc EXCEPT ![t] = "idle"]
      /\ DOMAIN reply' = Session /\ \A u \in Session \ {t} : reply'[u] = reply[u]
  BY Typed DEF Confirm
<1> QED BY <1>1, PhaseInv DEF Phase

\* LoseConfirmation preserves the invariant.
LEMMA LoseConfirmationInv ==
  ASSUME Inv, NEW t \in Session, LoseConfirmation(t)
  PROVE  Inv'
<1> DEFINE phase == IF pc[t] = "committed" THEN "idle" ELSE pc[t]
<1>1. /\ UNCHANGED <<rows, ledger, clock, peak>> /\ UNCHANGED <<holder, op, wanted, work, books>>
      /\ DOMAIN reply' = Session /\ \A u \in Session \ {t} : reply'[u] = reply[u]
      /\ pc' = [pc EXCEPT ![t] = phase]
  BY Typed DEF LoseConfirmation
<1>2. phase \in Phase /\ (phase = pc[t] \/ (pc[t] = "committed" /\ phase = "idle"))
  BY Typed DEF Phase
<1> HIDE DEF phase
<1> QED BY <1>1, <1>2, PhaseInv

\* Abandon preserves the invariant.
LEMMA AbandonInv ==
  ASSUME Inv, NEW t \in Session, Abandon(t)
  PROVE  Inv'
BY ReplyInv DEF Abandon

\* A cleanup takes only locks that nobody holds.
LEMMA ProbeInv ==
  ASSUME Inv, NEW t \in Session, Probe(t)
  PROVE  Inv'
<1>1. /\ UNCHANGED <<rows, ledger, clock, peak>> /\ UNCHANGED <<op, wanted, work, books, reply>>
      /\ pc[t] = "probe" /\ pc' = [pc EXCEPT ![t] = "delete"]
      /\ holder' = [s \in Shards |-> IF Candidate(s) /\ holder[s] = None THEN t ELSE holder[s]]
  BY DEF Probe
<1>2. StepType(t) /\ pc'[t] = "delete"
  BY <1>1, Typed DEF StepType, Phase, BeforeCommit
<1>3. StepLocks(t)
  BY <1>1, Typed DEF StepLocks
<1>4. LocksOK(t)' /\ WorkOK(t)'
  <2>1. ~IsCheck(op[t]) /\ work[t] = Nothing /\ books[t] = Nothing
    BY <1>1, Typed DEF LocksOK, WorkOK
  <2> QED BY <1>1, <1>2, <2>1 DEF LocksOK, WorkOK
<1> QED BY <1>1, <1>2, <1>3, <1>4, StepInv DEF SessionOK

\* What ending t's transaction does to its locks and its uncommitted rows.
LEMMA EndFacts ==
  ASSUME Inv, NEW t \in Session, EndTransaction(t),
         UNCHANGED <<op>>, NEW phase \in {"idle", "committed"}, pc' = [pc EXCEPT ![t] = phase],
         DOMAIN reply' = Session, \A u \in Session \ {t} : reply'[u] = reply[u]
  PROVE  StepType(t) /\ StepLocks(t) /\ SessionOK(t)'
<1>1. /\ holder' = [s \in Shards |-> IF holder[s] = t THEN None ELSE holder[s]]
      /\ wanted' = [wanted EXCEPT ![t] = {}]
      /\ work' = [work EXCEPT ![t] = Nothing]
      /\ books' = [books EXCEPT ![t] = Nothing]
  BY DEF EndTransaction
<1>2. StepType(t) /\ pc'[t] = phase
  BY <1>1, Typed DEF StepType, Phase
<1>3. StepLocks(t)
  BY <1>1, Typed DEF StepLocks
<1>4. Held(t)' = {} /\ work'[t] = Nothing /\ books'[t] = Nothing
  BY <1>1, Typed DEF Held
<1>5. LocksOK(t)' /\ WorkOK(t)'
  BY <1>2, <1>4 DEF LocksOK, WorkOK
<1> QED BY <1>2, <1>3, <1>5 DEF SessionOK

\* FailCommit preserves the invariant.
LEMMA FailCommitInv ==
  ASSUME Inv, NEW t \in Session, FailCommit(t)
  PROVE  Inv'
<1>1. /\ UNCHANGED <<rows, ledger, clock, peak>> /\ op' = op /\ EndTransaction(t)
      /\ pc' = [pc EXCEPT ![t] = "idle"]
      /\ DOMAIN reply' = Session /\ \A u \in Session \ {t} : reply'[u] = reply[u]
  BY Typed DEF FailCommit
<1>2. StepType(t) /\ StepLocks(t) /\ SessionOK(t)'
  BY <1>1, EndFacts
<1> QED BY <1>1, <1>2, StepInv

\* Rollback preserves the invariant.
LEMMA RollbackInv ==
  ASSUME Inv, NEW t \in Session, Rollback(t)
  PROVE  Inv'
<1>1. /\ UNCHANGED <<rows, ledger, clock, peak>> /\ op' = op /\ EndTransaction(t)
      /\ pc' = [pc EXCEPT ![t] = "idle"]
      /\ DOMAIN reply' = Session /\ \A u \in Session \ {t} : reply'[u] = reply[u]
  BY Typed DEF Rollback
<1>2. StepType(t) /\ StepLocks(t) /\ SessionOK(t)'
  BY <1>1, EndFacts
<1> QED BY <1>1, <1>2, StepInv

----------------------------------------------------------------------------
(* Deciding                                                                *)

\* The shards a session has locked form a finite set of shards.
LEMMA HeldFacts ==
  ASSUME Inv, NEW t \in Session
  PROVE  /\ Held(t) \subseteq Shards /\ IsFiniteSet(Held(t))
         /\ Clamped(t) \in 0..peak /\ clock <= Clamped(t)
         /\ \A s \in Held(t) : ledger[s].observed \in Nat /\ ledger[s].observed <= Clamped(t)
         /\ peak \in Nat /\ clock \in Nat
<1>1. Held(t) \subseteq Shards
  BY DEF Held
<1>2. IsFiniteSet(Shards)
  <2>1. IsFiniteSet(Key) /\ Shard \in [Key -> Nat]
    BY PgGcraAssumption
  <2> QED BY <2>1, ImageBound DEF Shards
<1>3. IsFiniteSet(Held(t))
  BY <1>1, <1>2, FS_Subset
<1>4. peak \in Nat /\ clock \in 0..peak /\ \A s \in Shards : ledger[s].observed \in 0..peak
  BY PgGcraAssumption DEF Inv, TypeOK
<1> DEFINE f == [s \in Held(t) |-> ledger[s].observed]
<1> DEFINE A == {f[s] : s \in Held(t)}
<1>5. f \in [Held(t) -> Nat] /\ A \subseteq 0..peak
  BY <1>1, <1>4
<1>6. IsFiniteSet(A)
  <2> HIDE DEF f
  <2> QED BY <1>3, <1>5, ImageBound
<1>7. {clock} \cup {ledger[s].observed : s \in Held(t)} = A \cup {clock}
  OBVIOUS
<1>8. IsFiniteSet(A \cup {clock}) /\ A \cup {clock} \in SUBSET Nat /\ A \cup {clock} # {}
  BY <1>4, <1>5, <1>6, FS_AddElement
<1>9. Clamped(t) \in A \cup {clock} /\ \A y \in A \cup {clock} : y <= Clamped(t)
  <2> HIDE DEF A
  <2> QED BY <1>7, <1>8, MaxOfFinite DEF Clamped
<1>10. Clamped(t) \in 0..peak
  BY <1>4, <1>5, <1>9
<1>11. \A s \in Held(t) : ledger[s].observed \in A
  OBVIOUS
<1> QED BY <1>1, <1>3, <1>4, <1>9, <1>10, <1>11

\* What every check of a batch evaluates to.
LEMMA EvaluatedFacts ==
  ASSUME Inv, NEW t \in Session, NEW j \in DOMAIN op[t].checks, NEW r,
         r = Evaluated(op[t].checks[j], Clamped(t))
  PROVE  LET k == op[t].checks[j].key
             row == rows[k]
             tat == IF row.expires > Clamped(t) THEN row.tat ELSE 0
             filled == AtLeast(tat, Clamped(t) * Policy[k].quota) + op[t].checks[j].cost * Policy[k].period
             over == Over(Policy[k], op[t].checks[j].cost, Clamped(t), tat)
         IN  /\ r.kind \in {"allowed", "denied", "overflow"}
             /\ r.kind = "allowed" =>
                  /\ r.allowance.tat \in 1..WideMax /\ r.allowance.expires \in Nat
                  /\ r.allowance.expires = DivCeil(r.allowance.tat, Policy[k].quota)
                  /\ r.allowance.tat = filled
                  /\ r.allowance.tat <= Clamped(t) * Policy[k].quota + Policy[k].burst * Policy[k].period
             /\ r.kind = "denied" => over > 0 /\ r.retry = DivCeil(over, Policy[k].quota)
<1> DEFINE k == op[t].checks[j].key
<1> DEFINE tat == IF rows[k].expires > Clamped(t) THEN rows[k].tat ELSE 0
<1>1. k \in Key /\ op[t].checks[j].cost \in Nat \ {0} /\ Policy[k] \in GcraPolicy
  <2>1. op[t] \in Operation \cup {NoOperation}
    BY DEF Inv, Shape
  <2> QED BY <2>1, ChecksFacts, ShardFacts
<1>2. tat \in Nat
  BY <1>1 DEF Inv, TypeOK
<1>3. Clamped(t) \in Nat
  BY HeldFacts
<1>4. r = GcraEvaluate(Policy[k], op[t].checks[j].cost, Clamped(t), tat)
  BY DEF Evaluated
<1> DEFINE p == Policy[k]
<1> DEFINE cost == op[t].checks[j].cost
<1> DEFINE now == Clamped(t)
<1>5. p \in GcraPolicy /\ cost \in Nat \ {0} /\ now \in Nat /\ r = GcraEvaluate(p, cost, now, tat)
  BY <1>1, <1>3, <1>4
<1> HIDE DEF tat, k, p, cost, now
<1>6. /\ r.kind \in {"allowed", "denied", "overflow"}
      /\ r.kind = "allowed" =>
           /\ r.allowance.tat \in 1..WideMax /\ r.allowance.expires \in Nat
           /\ r.allowance.expires = DivCeil(r.allowance.tat, p.quota)
           /\ r.allowance.tat = AtLeast(tat, now * p.quota) + cost * p.period
           /\ r.allowance.tat <= now * p.quota + p.burst * p.period
      /\ r.kind = "denied" =>
           Over(p, cost, now, tat) > 0 /\ r.retry = DivCeil(Over(p, cost, now, tat), p.quota)
  <2>1. p \in GcraPolicy
    BY <1>5
  <2>2. cost \in Nat \ {0}
    BY <1>5
  <2>3. now \in Nat
    BY <1>5
  <2>4. r = GcraEvaluate(p, cost, now, tat)
    BY <1>5
  <2> QED BY <1>2, <2>1, <2>2, <2>3, <2>4, Evaluation
<1> QED BY <1>6 DEF k, tat, p, cost, now

\* The keys of a batch that have no row yet, in one shard.
NewKeys(t, s) ==
    {k \in {op[t].checks[j].key : j \in DOMAIN op[t].checks} : ~Exists(k) /\ Shard[k] = s}

\* A batch none of whose checks lacks room leaves every shard within t's bound: the last
\* check that inserts a row there has counted all the others.
LEMMA CapacityLemma ==
  ASSUME Inv, NEW t \in Session, NEW s \in Shards,
         \A j \in DOMAIN op[t].checks : ~NoRoom(t, j)
  PROVE  /\ NewKeys(t, s) \subseteq Key /\ IsFiniteSet(NewKeys(t, s))
         /\ Cardinality(NewKeys(t, s)) \in Nat
         /\ Within(ledger[s].count + Cardinality(NewKeys(t, s)))
<1> DEFINE c == op[t].checks
<1> DEFINE N == NewKeys(t, s)
<1>1. /\ DOMAIN c = 1..Len(c) /\ Len(c) \in Nat
      /\ \A j \in DOMAIN c : c[j].key \in Key
  <2>1. op[t] \in Operation \cup {NoOperation}
    BY DEF Inv, Shape
  <2> QED BY <2>1, ChecksFacts
<1>2. N \subseteq Key
  BY <1>1 DEF NewKeys
<1>3. IsFiniteSet(N) /\ Cardinality(N) \in Nat
  BY <1>2, FS_Subset, FS_CardinalityType, PgGcraAssumption
<1>4. ledger[s].count \in Nat /\ Within(ledger[s].count)
  BY LedgerCounts DEF Inv, TypeOK
<1>5. CASE N = {}
  <2>1. Cardinality(N) = 0
    BY <1>5, FS_EmptySet
  <2>2. ledger[s].count + Cardinality(N) = ledger[s].count
    BY <1>4, <2>1
  <2> QED BY <1>2, <1>3, <1>4, <2>2
<1>6. CASE N # {}
  <2> DEFINE J == {j \in DOMAIN c : c[j].key \in N}
  <2>1. J \in SUBSET Nat /\ J # {} /\ IsFiniteSet(J)
    <3>1. \A k \in N : \E j \in DOMAIN c : c[j].key = k
      BY DEF NewKeys
    <3>2. J # {}
      BY <1>6, <3>1
    <3>3. J \subseteq 1..Len(c) /\ IsFiniteSet(1..Len(c))
      BY <1>1, FS_Interval
    <3> QED BY <3>2, <3>3, FS_Subset
  <2>2. PICK j \in J : \A i \in J : i <= j
    <3> HIDE DEF J
    <3> QED BY <2>1, MaxOfFinite
  <2>3. j \in DOMAIN c /\ c[j].key \in N /\ ~Exists(c[j].key) /\ Shard[c[j].key] = s
    BY <2>2 DEF NewKeys
  <2> DEFINE before == {k \in {c[h].key : h \in 1..(j - 1)} : ~Exists(k)}
  <2> DEFINE B == {k \in before : Shard[k] = s}
  <2>4. ~(ledger[s].count + InShard(before, s) >= MaxRows[t])
    BY <2>3 DEF NoRoom
  <2>5. N \subseteq B \cup {c[j].key}
    <3> SUFFICES ASSUME NEW k \in N PROVE k \in B \cup {c[j].key}
      OBVIOUS
    <3>1. PICK i \in DOMAIN c : c[i].key = k /\ ~Exists(k) /\ Shard[k] = s
      BY DEF NewKeys
    <3>2. i <= j
      BY <2>2, <3>1
    <3>3. CASE i = j
      BY <3>1, <3>3
    <3>4. CASE i # j
      <4>1. i \in 1..(j - 1)
        BY <1>1, <2>3, <3>2, <3>4
      <4> QED BY <3>1, <4>1
    <3> QED BY <3>3, <3>4
  <2>6. before \subseteq Key
    BY <1>1, <2>3
  <2>7. IsFiniteSet(B) /\ InShard(before, s) = Cardinality(B) /\ Cardinality(B) \in Nat
    <3> HIDE DEF before
    <3>1. IsFiniteSet(B) /\ InShard(before, s) = Cardinality(B)
      BY <2>6, KeySets
    <3> QED BY <3>1, FS_CardinalityType
  <2>8. IsFiniteSet(B \cup {c[j].key}) /\ Cardinality(B \cup {c[j].key}) \in Nat
        /\ Cardinality(B \cup {c[j].key}) <= Cardinality(B) + 1
    <3> DEFINE x == c[j].key
    <3> HIDE DEF B, x
    <3>1. IsFiniteSet(B \cup {x})
          /\ Cardinality(B \cup {x}) = IF x \in B THEN Cardinality(B) ELSE Cardinality(B) + 1
      BY <2>7, FS_AddElement
    <3>2. Cardinality(B \cup {x}) \in Nat /\ Cardinality(B \cup {x}) <= Cardinality(B) + 1
      BY <2>7, <3>1
    <3> QED BY <3>1, <3>2 DEF x
  <2>9. Cardinality(N) <= Cardinality(B \cup {c[j].key})
    <3> HIDE DEF B, c, N
    <3> QED BY <2>5, <2>8, FS_Subset
  <2>10. MaxRows[t] \in Nat
    BY PgGcraAssumption
  <2>11. ledger[s].count + Cardinality(N) <= MaxRows[t]
    <3> HIDE DEF B, c, N, before
    <3> QED BY <1>3, <1>4, <2>4, <2>7, <2>8, <2>9, <2>10
  <2> QED BY <1>2, <1>3, <2>11 DEF Within
<1> QED BY <1>5, <1>6

\* An admission that writes: its rows are sound, and its books count them.
LEMMA DecideInv ==
  ASSUME Inv, NEW t \in Session, Decide(t)
  PROVE  Inv'
<1> DEFINE checks == op[t].checks
<1> DEFINE keys == {checks[j].key : j \in DOMAIN checks}
<1> DEFINE now == Clamped(t)
<1> DEFINE result == [j \in DOMAIN checks |-> Evaluated(checks[j], now)]
<1> DEFINE denied == {j \in DOMAIN checks : result[j].kind = "denied" \/ NoRoom(t, j)}
<1> DEFINE indexOf(k) == CHOOSE j \in DOMAIN checks : checks[j].key = k
<1> DEFINE overflow == \E j \in DOMAIN checks : result[j].kind = "overflow"
<1> DEFINE unstorable == \E j \in DOMAIN checks : result[j].allowance.expires > BigintMax
<1> DEFINE rowOf(k) == [tat |-> result[indexOf(k)].allowance.tat,
                        expires |-> result[indexOf(k)].allowance.expires]
<1> DEFINE bookOf(s) == [count |-> ledger[s].count + InShard({k \in keys : ~Exists(k)}, s),
                         observed |-> now]
<1>1. /\ UNCHANGED <<rows, ledger, clock, peak>> /\ UNCHANGED <<holder, op, wanted>>
      /\ pc[t] = "locking" /\ wanted[t] = {}
  BY DEF Decide
<1>2. \/ /\ \E r : reply' = [reply EXCEPT ![t] = r]
         /\ UNCHANGED <<pc, work, books>>
      \/ /\ ~overflow /\ ~unstorable /\ denied = {}
         /\ work' = [work EXCEPT ![t] = [k \in keys |-> rowOf(k)]]
         /\ books' = [books EXCEPT ![t] = [s \in Held(t) |-> bookOf(s)]]
         /\ pc' = [pc EXCEPT ![t] = "ready"]
         /\ UNCHANGED reply
  BY DEF Decide
<1>3. CASE /\ \E r : reply' = [reply EXCEPT ![t] = r]
           /\ UNCHANGED <<pc, work, books>>
  BY <1>1, <1>3, ReplyInv
<1>4. CASE /\ ~overflow /\ ~unstorable /\ denied = {}
           /\ work' = [work EXCEPT ![t] = [k \in keys |-> rowOf(k)]]
           /\ books' = [books EXCEPT ![t] = [s \in Held(t) |-> bookOf(s)]]
           /\ pc' = [pc EXCEPT ![t] = "ready"]
           /\ UNCHANGED reply
  <2>1. /\ \A j \in DOMAIN checks : checks[j].key \in Key
        /\ IsCheck(op[t]) /\ ShardsOf(checks) = Held(t)
    <3>1. op[t] \in Operation \cup {NoOperation}
      BY DEF Inv, Shape
    <3>2. LocksOK(t)
      BY Typed
    <3> QED BY <1>1, <3>1, <3>2, ChecksFacts DEF LocksOK
  <2>2. keys \subseteq Key /\ \A k \in keys : Shard[k] \in Held(t)
    BY <2>1 DEF ShardsOf
  <2>3. Held(t) \subseteq Shards /\ now \in 0..peak /\ \A s \in Held(t) : ledger[s].observed <= now
    BY HeldFacts
  <2>4. ASSUME NEW k \in keys
        PROVE  rowOf(k) \in RowType /\ rowOf(k).tat > 0 /\ SoundRow(k, rowOf(k)) /\ rowOf(k) # NoRow
    <3> DEFINE j == indexOf(k)
    <3>1. j \in DOMAIN checks /\ checks[j].key = k
      OBVIOUS
    <3> HIDE DEF j
    <3> DEFINE r == result[j]
    <3>2. r = Evaluated(op[t].checks[j], Clamped(t)) /\ r.kind # "overflow" /\ r.kind # "denied"
          /\ ~(r.allowance.expires > BigintMax)
      BY <1>4, <3>1
    <3> HIDE DEF r, result
    <3>3. r.kind \in {"allowed", "denied", "overflow"}
      BY <3>1, <3>2, EvaluatedFacts
    <3>4. r.kind = "allowed"
      BY <3>2, <3>3
    <3>5. /\ r.allowance.tat \in 1..WideMax /\ r.allowance.expires \in Nat
          /\ r.allowance.expires = DivCeil(r.allowance.tat, Policy[k].quota)
      BY <3>1, <3>2, <3>4, EvaluatedFacts
    <3>6. rowOf(k) = [tat |-> r.allowance.tat, expires |-> r.allowance.expires]
      BY DEF r, j
    <3> HIDE DEF rowOf
    <3>7. rowOf(k).tat = r.allowance.tat /\ rowOf(k).expires = r.allowance.expires
      BY <3>6
    <3>8. r.allowance.tat \in 0..WideMax /\ r.allowance.expires \in 0..BigintMax /\ r.allowance.tat > 0
      BY <3>2, <3>5, GcraAssumption, PgGcraAssumption
    <3> QED BY <3>5, <3>6, <3>7, <3>8 DEF RowType, SoundRow, NoRow
  <2>5. /\ work'[t] = [k \in keys |-> rowOf(k)] /\ books'[t] = [s \in Held(t) |-> bookOf(s)]
        /\ pc'[t] = "ready"
    BY <1>4, Typed
  <2>6. StepType(t) /\ StepLocks(t)
    <3> HIDE DEF rowOf, bookOf, keys
    <3> QED BY <1>1, <1>4, Typed DEF StepType, StepLocks, Phase, BeforeCommit
  <2>7. Held(t)' = Held(t)
    BY <1>1 DEF Held
  <2>8. LocksOK(t)'
    BY <2>5 DEF LocksOK
  <2>9. ASSUME NEW s \in Held(t)
        PROVE  /\ bookOf(s) \in [count : Nat, observed : 0..peak]
               /\ ledger[s].observed <= bookOf(s).observed
               /\ bookOf(s).count = Cardinality(RowsIn(After(t)', s))
               /\ Within(bookOf(s).count)
    <3> DEFINE N == NewKeys(t, s)
    <3>1. {k \in {j \in keys : ~Exists(j)} : Shard[k] = s} = N
      BY DEF NewKeys
    <3>2. InShard({k \in keys : ~Exists(k)}, s) = Cardinality(N)
      BY <3>1 DEF InShard
    <3>3. s \in Shards /\ \A j \in DOMAIN op[t].checks : ~NoRoom(t, j)
      BY <1>4, <2>3
    <3>4. N \subseteq Key /\ IsFiniteSet(N) /\ Cardinality(N) \in Nat /\ Within(ledger[s].count + Cardinality(N))
      BY <3>3, CapacityLemma
    <3>5. bookOf(s).count = ledger[s].count + Cardinality(N) /\ bookOf(s).observed = now
          /\ bookOf(s) = [count |-> ledger[s].count + Cardinality(N), observed |-> now]
      BY <3>2
    <3> HIDE DEF bookOf
    <3>6. ledger[s].count \in Nat /\ ledger[s].count = Cardinality(RowsIn(rows, s))
      BY <3>3, LedgerCounts DEF Inv, TypeOK
    <3>7. RowsIn(After(t)', s) = RowsIn(rows, s) \cup N /\ RowsIn(rows, s) \cap N = {}
      <4>1. \A k \in Key : After(t)'[k] = IF k \in keys THEN rowOf(k) ELSE rows[k]
        BY <1>1, <2>5 DEF After
      <4>2. \A k \in keys : rowOf(k) # NoRow
        BY <2>4
      <4> HIDE DEF rowOf
      <4>3. \A k : k \in N <=> k \in keys /\ ~Exists(k) /\ Shard[k] = s
        BY DEF NewKeys
      <4>4. \A k \in Key : k \in RowsIn(After(t)', s) <=> k \in RowsIn(rows, s) \cup N
        BY <2>2, <4>1, <4>2, <4>3 DEF RowsIn, Exists
      <4>5. RowsIn(After(t)', s) \subseteq Key /\ RowsIn(rows, s) \cup N \subseteq Key
        BY <3>4 DEF RowsIn
      <4>6. RowsIn(rows, s) \cap N = {}
        BY <4>3 DEF RowsIn, Exists
      <4> QED BY <4>4, <4>5, <4>6
    <3>8. IsFiniteSet(RowsIn(rows, s))
      BY FS_Subset, PgGcraAssumption DEF RowsIn
    <3>9. Cardinality(RowsIn(rows, s) \cup N) = Cardinality(RowsIn(rows, s)) + Cardinality(N)
      <4> HIDE DEF N
      <4>1. Cardinality(RowsIn(rows, s) \cup N)
              = Cardinality(RowsIn(rows, s)) + Cardinality(N) - Cardinality(RowsIn(rows, s) \cap N)
        BY <3>4, <3>8, FS_Union
      <4>2. Cardinality(RowsIn(rows, s) \cap N) = 0
        BY <3>7, FS_EmptySet
      <4> QED BY <3>4, <3>6, <4>1, <4>2
    <3> HIDE DEF N, now
    <3>10. bookOf(s) \in [count : Nat, observed : 0..peak]
      BY <2>3, <3>4, <3>5, <3>6
    <3> QED BY <2>3, <3>4, <3>5, <3>6, <3>7, <3>9, <3>10
  <2>10. WorkOK(t)'
    <3> HIDE DEF rowOf, bookOf, keys, now
    <3>1. DOMAIN books'[t] = Held(t)' /\ DOMAIN work'[t] = keys
      BY <2>5, <2>7
    <3>2. \A k \in keys : work'[t][k] = rowOf(k)
      BY <2>5
    <3>3. \A s \in Held(t) : books'[t][s] = bookOf(s)
      BY <2>5
    <3>4. \A k \in DOMAIN work'[t] :
              k \in Key /\ Shard[k] \in Held(t)' /\ work'[t][k] \in RowType /\ SoundRow(k, work'[t][k])
      BY <2>2, <2>4, <2>7, <3>1, <3>2
    <3>5. ASSUME NEW s \in Held(t)'
          PROVE  /\ books'[t][s] \in [count : Nat, observed : 0..peak]
                 /\ ledger[s].observed <= books'[t][s].observed
                 /\ books'[t][s].count = Cardinality(RowsIn(After(t)', s))
                 /\ Within(books'[t][s].count)
      BY <2>7, <2>9, <3>3
    <3>6. \A s : RowsIn(After(t), s)' = RowsIn(After(t)', s)
      BY DEF RowsIn
    <3> QED BY <1>1, <2>5, <3>1, <3>4, <3>5, <3>6 DEF WorkOK, Within
  <2> QED BY <1>1, <2>6, <2>8, <2>10, StepInv DEF SessionOK
<1> QED BY <1>2, <1>3, <1>4

\* A cleanup books what is left of the rows it deletes from.
LEMMA DeleteExpiredInv ==
  ASSUME Inv, NEW t \in Session, DeleteExpired(t)
  PROVE  Inv'
<1> DEFINE now == Clamped(t)
<1> DEFINE bookOf(S, s) == [count |-> ledger[s].count - InShard(S, s), observed |-> now]
<1>1. /\ UNCHANGED <<rows, ledger, clock, peak>> /\ UNCHANGED <<holder, op, wanted, reply>>
      /\ pc[t] = "delete" /\ pc' = [pc EXCEPT ![t] = "ready"]
  BY DEF DeleteExpired
<1>2. PICK S \in SUBSET {k \in Key : Exists(k) /\ Shard[k] \in Held(t) /\ rows[k].expires <= Clamped(t)} :
        /\ work' = [work EXCEPT ![t] = [k \in S |-> NoRow]]
        /\ books' = [books EXCEPT ![t] = [s \in Held(t) |-> bookOf(S, s)]]
  BY DEF DeleteExpired, Advanced
<1>3. S \subseteq Key /\ \A k \in S : Exists(k) /\ Shard[k] \in Held(t)
  BY <1>2
<1>4. Held(t) \subseteq Shards /\ now \in 0..peak /\ \A s \in Held(t) : ledger[s].observed <= now
  BY HeldFacts
<1>5. /\ work'[t] = [k \in S |-> NoRow] /\ books'[t] = [s \in Held(t) |-> bookOf(S, s)]
      /\ pc'[t] = "ready"
  BY <1>1, <1>2, Typed
<1>6. StepType(t) /\ StepLocks(t)
  <2> HIDE DEF bookOf
  <2> QED BY <1>1, <1>2, Typed DEF StepType, StepLocks, Phase, BeforeCommit
<1>7. Held(t)' = Held(t)
  BY <1>1 DEF Held
<1>8. LocksOK(t)'
  BY <1>5 DEF LocksOK
<1>9. ASSUME NEW s \in Held(t)
      PROVE  /\ bookOf(S, s) \in [count : Nat, observed : 0..peak]
             /\ ledger[s].observed <= bookOf(S, s).observed
             /\ bookOf(S, s).count = Cardinality(RowsIn(After(t)', s))
             /\ Within(bookOf(S, s).count)
  <2> DEFINE D == {k \in S : Shard[k] = s}
  <2> DEFINE A == RowsIn(rows, s)
  <2>1. InShard(S, s) = Cardinality(D)
    BY DEF InShard
  <2>2. IsFiniteSet(A) /\ IsFiniteSet(D) /\ A \cap D = D
    <3>1. A \subseteq Key /\ D \subseteq Key
      BY <1>3 DEF RowsIn
    <3>2. A \cap D = D
      BY <1>3 DEF RowsIn, Exists
    <3> QED BY <3>1, <3>2, FS_Subset, PgGcraAssumption
  <2>3. RowsIn(After(t)', s) = A \ D
    <3>1. \A k \in Key : After(t)'[k] = IF k \in S THEN NoRow ELSE rows[k]
      BY <1>1, <1>5 DEF After
    <3> QED BY <1>3, <3>1 DEF RowsIn
  <2>4. ledger[s].count \in Nat /\ ledger[s].count = Cardinality(A) /\ Within(ledger[s].count)
    BY <1>4, LedgerCounts DEF Inv, TypeOK
  <2>5. Cardinality(A \ D) = Cardinality(A) - Cardinality(D) /\ IsFiniteSet(A \ D)
    <3> HIDE DEF A, D
    <3> QED BY <2>2, FS_Difference
  <2>6. Cardinality(A \ D) \in Nat /\ Cardinality(D) \in Nat
    <3> HIDE DEF A, D
    <3> QED BY <2>2, <2>5, FS_CardinalityType
  <2>7. bookOf(S, s) = [count |-> Cardinality(A \ D), observed |-> now]
    BY <2>1, <2>4, <2>5
  <2> HIDE DEF A, D, bookOf, now
  <2>8. bookOf(S, s).count = Cardinality(A \ D) /\ bookOf(S, s).observed = now
    BY <2>7
  <2>9. Within(Cardinality(A \ D))
    <3>1. PICK v \in Session : ledger[s].count <= MaxRows[v]
      BY <2>4 DEF Within
    <3>2. Cardinality(A \ D) <= MaxRows[v]
      BY <2>4, <2>5, <2>6, <3>1, PgGcraAssumption
    <3> QED BY <3>2 DEF Within
  <2>10. bookOf(S, s) \in [count : Nat, observed : 0..peak]
    BY <1>4, <2>6, <2>7
  <2> QED BY <1>4, <2>3, <2>8, <2>9, <2>10
<1>10. WorkOK(t)'
  <2> HIDE DEF bookOf, now
  <2>1. DOMAIN books'[t] = Held(t)' /\ DOMAIN work'[t] = S
    BY <1>5, <1>7
  <2>2. \A k \in S : work'[t][k] = NoRow
    BY <1>5
  <2>3. \A s \in Held(t) : books'[t][s] = bookOf(S, s)
    BY <1>5
  <2>4. NoRow \in RowType
    BY GcraAssumption, PgGcraAssumption DEF NoRow, RowType
  <2>5. \A k \in DOMAIN work'[t] :
            k \in Key /\ Shard[k] \in Held(t)' /\ work'[t][k] \in RowType /\ SoundRow(k, work'[t][k])
    BY <1>3, <1>7, <2>1, <2>2, <2>4 DEF SoundRow
  <2>6. ASSUME NEW s \in Held(t)'
        PROVE  /\ books'[t][s] \in [count : Nat, observed : 0..peak]
               /\ ledger[s].observed <= books'[t][s].observed
               /\ books'[t][s].count = Cardinality(RowsIn(After(t)', s))
               /\ Within(books'[t][s].count)
    BY <1>7, <1>9, <2>3
  <2>7. \A s : RowsIn(After(t), s)' = RowsIn(After(t)', s)
    BY DEF RowsIn
  <2> QED BY <1>1, <1>5, <2>1, <2>5, <2>6, <2>7 DEF WorkOK, Within
<1> QED BY <1>1, <1>6, <1>8, <1>10, StepInv DEF SessionOK

----------------------------------------------------------------------------
(* Committing, the clock, and the initial state                            *)

\* What a commit changes is under t's locks, and booked.
LEMMA ServerCommitInv ==
  ASSUME Inv, NEW t \in Session, ServerCommit(t)
  PROVE  Inv'
<1> DEFINE phase == IF Waiting(t) THEN "committed" ELSE "idle"
<1>1. /\ pc[t] = "committing" /\ pc' = [pc EXCEPT ![t] = phase]
      /\ rows' = After(t)
      /\ ledger' = [s \in Shards |-> IF s \in DOMAIN books[t] THEN books[t][s] ELSE ledger[s]]
      /\ EndTransaction(t)
      /\ clock' = clock /\ peak' = peak /\ op' = op /\ reply' = reply
  BY DEF ServerCommit, After
<1>2. /\ DOMAIN books[t] = Held(t)
      /\ \A k \in DOMAIN work[t] :
            k \in Key /\ Shard[k] \in Held(t) /\ work[t][k] \in RowType /\ SoundRow(k, work[t][k])
      /\ \A s \in Held(t) :
            /\ books[t][s] \in [count : Nat, observed : 0..peak]
            /\ books[t][s].count = Cardinality(RowsIn(After(t), s))
            /\ Within(books[t][s].count)
  BY <1>1, Typed DEF WorkOK
<1>3. phase \in {"idle", "committed"} /\ DOMAIN reply' = Session /\ \A u \in Session \ {t} : reply'[u] = reply[u]
  BY <1>1, Typed
<1>4. StepType(t) /\ StepLocks(t) /\ SessionOK(t)'
  <2> HIDE DEF phase
  <2> QED BY <1>1, <1>3, EndFacts
<1>5. Held(t) \subseteq Shards
  BY DEF Held
<1>6. \A s \in Shards : ledger'[s] = IF s \in Held(t) THEN books[t][s] ELSE ledger[s]
  BY <1>1, <1>2
<1>7. \A k \in Key : /\ Shard[k] \notin Held(t) => rows'[k] = rows[k]
                     /\ rows'[k] = work[t][k] \/ rows'[k] = rows[k]
                     /\ k \in DOMAIN work[t] => rows'[k] = work[t][k]
                     /\ k \notin DOMAIN work[t] => rows'[k] = rows[k]
  BY <1>1, <1>2 DEF After
<1>8. SessionsInv'
  <2> SUFFICES ASSUME NEW u \in Session PROVE SessionOK(u)'
    BY DEF SessionsInv
  <2>1. CASE u = t
    BY <1>4, <2>1
  <2>2. CASE u # t
    <3>1. \A s \in Shards : holder'[s] = u <=> holder[s] = u
      BY <1>4, <2>2, PgGcraAssumption DEF StepLocks
    <3>2. Held(u) \cap Held(t) = {} /\ Held(u) \subseteq Shards
      BY <2>2 DEF Held
    <3>3. peak \in Nat /\ peak' = peak
      BY <1>1, PgGcraAssumption DEF Inv, TypeOK
    <3>4. \A s \in Held(u) : ledger'[s] = ledger[s]
      BY <1>6, <3>2
    <3>5. \A k \in Key : Shard[k] \in Held(u) => rows'[k] = rows[k]
      BY <1>7, <3>2
    <3>6. peak' \in Nat /\ peak <= peak'
      BY <3>3
    <3> QED BY <1>4, <2>2, <3>1, <3>3, <3>4, <3>5, <3>6, Undisturbed DEF StepType
  <2> QED BY <2>1, <2>2
<1>9. RowsSound'
  BY <1>2, <1>7 DEF Inv, RowsSound
<1>10. LedgerExact'
  <2>1. ASSUME NEW s \in Shards
        PROVE  ledger'[s].count = Cardinality(RowsIn(rows', s)) /\ Within(ledger'[s].count)
    <3>1. CASE s \in Held(t)
      BY <1>1, <1>2, <1>6, <3>1
    <3>2. CASE s \notin Held(t)
      <4>1. RowsIn(rows', s) = RowsIn(rows, s)
        BY <1>7, <3>2 DEF RowsIn
      <4>2. ledger[s].count = Cardinality(RowsIn(rows, s)) /\ Within(ledger[s].count)
        BY LedgerCounts DEF Inv
      <4> QED BY <1>6, <3>2, <4>1, <4>2
    <3> QED BY <3>1, <3>2
  <2> SUFFICES ASSUME NEW s \in Shards
               PROVE  /\ ledger'[s].count = InShard({k \in Key : Exists(k)'}, s)
                      /\ \E v \in Session : ledger'[s].count <= MaxRows[v]
    BY DEF LedgerExact
  <2>2. {k \in {j \in Key : Exists(j)'} : Shard[k] = s} = RowsIn(rows', s)
    BY DEF RowsIn, Exists
  <2> QED BY <2>1, <2>2 DEF InShard, Within
<1>11. TypeOK'
  <2>1. rows' \in [Key -> RowType]
    <3>1. \A k \in Key : rows'[k] \in RowType
      BY <1>2, <1>7 DEF Inv, TypeOK, RowType
    <3>2. rows' = [k \in Key |-> rows'[k]]
      BY <1>1 DEF After
    <3> QED BY <3>1, <3>2
  <2>2. ledger' \in [Shards -> [count : Nat, observed : 0..peak]]
    <3>1. \A s \in Shards : ledger'[s] \in [count : Nat, observed : 0..peak]
      BY <1>2, <1>6 DEF Inv, TypeOK
    <3>2. ledger' = [s \in Shards |-> ledger'[s]]
      BY <1>1
    <3> QED BY <3>1, <3>2
  <2>3. ASSUME NEW u \in Session
        PROVE  DOMAIN work'[u] \subseteq Key /\ DOMAIN books'[u] \subseteq Held(u)'
    <3>1. WorkOK(u)'
      BY <1>8 DEF SessionsInv, SessionOK
    <3>2. DOMAIN Nothing = {}
      BY DEF Nothing
    <3> QED BY <3>1, <3>2 DEF WorkOK
  <2> QED BY <1>1, <1>4, <2>1, <2>2, <2>3 DEF Inv, TypeOK, StepType, StepLocks, Phase, RowType
<1>12. Shape'
  BY <1>4 DEF Shape, StepType, AnyOperation
<1> QED BY <1>8, <1>9, <1>10, <1>11, <1>12 DEF Inv

\* The clock may go either way; the greatest reading does not go back.
LEMMA SetClockInv ==
  ASSUME Inv, SetClock
  PROVE  Inv'
<1>1. /\ clock' \in Time /\ peak' = Max({peak, clock'})
      /\ UNCHANGED <<rows, ledger, holder, pc, op, wanted, work, books, reply>>
  BY DEF SetClock
<1>2. peak \in Nat /\ peak \in Time /\ clock' \in Nat
  BY <1>1, PgGcraAssumption DEF Inv, TypeOK
<1>3. peak' \in {peak, clock'} /\ \A y \in {peak, clock'} : y <= peak'
  <2>1. IsFiniteSet({peak, clock'})
    <3>1. IsFiniteSet({peak}) /\ {peak, clock'} = {peak} \cup {clock'}
      BY FS_Singleton
    <3> QED BY <3>1, FS_AddElement
  <2>2. {peak, clock'} \in SUBSET Nat /\ {peak, clock'} # {}
    BY <1>2
  <2> QED BY <1>1, <2>1, <2>2, MaxOfFinite
<1>4. peak' \in Nat /\ peak' \in Time /\ peak <= peak' /\ clock' <= peak'
  BY <1>1, <1>2, <1>3
<1>5. SessionsInv'
  <2> SUFFICES ASSUME NEW u \in Session PROVE SessionOK(u)'
    BY DEF SessionsInv
  <2>1. /\ pc'[u] = pc[u] /\ op'[u] = op[u] /\ wanted'[u] = wanted[u] /\ work'[u] = work[u]
        /\ books'[u] = books[u] /\ (\A s \in Shards : holder'[s] = u <=> holder[s] = u)
        /\ (\A s \in Held(u) : ledger'[s] = ledger[s]) /\ \A k \in Key : Shard[k] \in Held(u) => rows'[k] = rows[k]
    BY <1>1
  <2> QED BY <1>2, <1>4, <2>1, Undisturbed
<1>6. TypeOK'
  <2>1. \A s \in Shards : ledger[s] \in [count : Nat, observed : 0..peak']
    BY <1>2, <1>4 DEF Inv, TypeOK
  <2>2. ledger' \in [Shards -> [count : Nat, observed : 0..peak']]
    BY <1>1, <2>1 DEF Inv, TypeOK
  <2>3. \A u \in Session : Held(u)' = Held(u)
    BY <1>1 DEF Held
  <2> QED BY <1>1, <1>4, <2>2, <2>3 DEF Inv, TypeOK
<1>7. Shape' /\ LedgerExact' /\ RowsSound'
  BY <1>1 DEF Inv, Shape, LedgerExact, Exists, RowsSound, SoundRow
<1> QED BY <1>5, <1>6, <1>7 DEF Inv

\* The invariant holds initially.
LEMMA InitInv ==
  ASSUME Init
  PROVE  Inv
<1>1. /\ rows = [k \in Key |-> NoRow] /\ ledger = [s \in Shards |-> [count |-> 0, observed |-> 0]]
      /\ clock = 0 /\ peak = 0 /\ holder = [s \in Shards |-> None]
      /\ pc = [t \in Session |-> "idle"] /\ op = [t \in Session |-> NoOperation]
      /\ wanted = [t \in Session |-> {}] /\ work = [t \in Session |-> Nothing]
      /\ books = [t \in Session |-> Nothing] /\ DOMAIN reply = Session
  BY DEF Init, NoOperation
<1>2. DOMAIN Nothing = {} /\ NoRow \in RowType
  BY GcraAssumption, PgGcraAssumption DEF Nothing, NoRow, RowType
<1>3. \A t \in Session : Held(t) = {}
  BY <1>1, PgGcraAssumption DEF Held
<1>4. TypeOK
  <2>1. \A t \in Session : DOMAIN work[t] \subseteq Key /\ DOMAIN books[t] \subseteq Held(t)
    BY <1>1, <1>2
  <2>2. ledger \in [Shards -> [count : Nat, observed : 0..peak]]
    BY <1>1
  <2> QED BY <1>1, <1>2, <2>1, <2>2, PgGcraAssumption DEF TypeOK, RowType
<1>5. Shape
  BY <1>1 DEF Shape
<1>6. LedgerExact
  <2>1. ASSUME NEW s \in Shards
        PROVE  ledger[s].count = Cardinality(RowsIn(rows, s)) /\ Within(ledger[s].count)
    <3>1. RowsIn(rows, s) = {} /\ ledger[s].count = 0
      BY <1>1 DEF RowsIn
    <3>2. PICK v \in Session : TRUE
      BY PgGcraAssumption
    <3>3. 0 <= MaxRows[v]
      BY PgGcraAssumption
    <3> QED BY <3>1, <3>3, FS_EmptySet DEF Within
  <2> QED BY <2>1, CountsLedger
<1>7. RowsSound
  BY <1>1 DEF RowsSound, SoundRow
<1>8. SessionsInv
  BY <1>1, <1>3 DEF SessionsInv, SessionOK, LocksOK, WorkOK
<1> QED BY <1>4, <1>5, <1>6, <1>7, <1>8 DEF Inv

\* Every step preserves the invariant.
LEMMA NextInv ==
  ASSUME Inv, [Next]_vars
  PROVE  Inv'
<1>1. CASE SetClock
  BY <1>1, SetClockInv
<1>2. ASSUME NEW t \in Session,
             \/ Begin(t) \/ LockShard(t) \/ Decide(t) \/ Probe(t) \/ DeleteExpired(t)
             \/ SendCommit(t) \/ ServerCommit(t) \/ Confirm(t)
             \/ LoseConfirmation(t) \/ FailCommit(t) \/ Abandon(t) \/ Rollback(t)
      PROVE  Inv'
  <2>1. CASE Begin(t) \/ LockShard(t) \/ Decide(t) \/ Probe(t) \/ DeleteExpired(t)
    BY <2>1, BeginInv, LockShardInv, DecideInv, ProbeInv, DeleteExpiredInv
  <2>2. CASE SendCommit(t) \/ ServerCommit(t) \/ Confirm(t)
    BY <2>2, SendCommitInv, ServerCommitInv, ConfirmInv
  <2>3. CASE LoseConfirmation(t) \/ FailCommit(t) \/ Abandon(t) \/ Rollback(t)
    BY <2>3, LoseConfirmationInv, FailCommitInv, AbandonInv, RollbackInv
  <2> QED BY <1>2, <2>1, <2>2, <2>3
<1>3. CASE UNCHANGED vars
  <2>1. PICK t \in Session : TRUE
    BY PgGcraAssumption
  <2>2. /\ UNCHANGED <<rows, ledger, clock, peak>>
        /\ UNCHANGED <<holder, pc, op, wanted, work, books>> /\ reply' = reply
    BY <1>3 DEF vars
  <2>3. pc' = [pc EXCEPT ![t] = pc[t]] /\ pc[t] \in Phase /\ DOMAIN reply' = Session
    BY <2>2, Typed
  <2> QED BY <2>2, <2>3, PhaseInv
<1> QED BY <1>1, <1>2, <1>3 DEF Next

----------------------------------------------------------------------------
(* What follows                                                            *)

\* The invariant the other results rest on.
THEOREM Invariance == Spec => []Inv
<1>1. Init => Inv
  BY InitInv
<1>2. Inv /\ [Next]_vars => Inv'
  BY NextInv
<1> QED BY <1>1, <1>2, PTL DEF Spec

\* The trigger-kept row_count of every shard is the number of its counters in every
\* committed state, and within the largest maximum_rows_per_shard of a replica, whichever
\* admissions and cleanups overlap, fail or are abandoned.
THEOREM ExactLedger == Spec => []LedgerExact
<1>1. Inv => LedgerExact
  BY DEF Inv
<1> QED BY <1>1, Invariance, PTL

----------------------------------------------------------------------------
(* No deadlock                                                             *)

\* Whoever waits for a lock waits for one below every lock its holder still wants.
LEMMA WaitsAreOrdered ==
  ASSUME Inv, NEW t \in Session, NEW u \in Session, WaitsFor(t, u), pc[u] = "locking"
  PROVE  wanted[t] # {} /\ \A r \in wanted[u] : Min(wanted[t]) < r
<1>1. PICK s \in Shards : NextShard(t, s) /\ holder[s] = u
  BY DEF WaitsFor
<1>2. s \in wanted[t] /\ \A r \in wanted[t] : s <= r
  BY <1>1 DEF NextShard
<1>3. wanted[t] \in SUBSET Nat /\ wanted[t] # {}
  BY <1>2, Typed, ShardFacts
<1>4. Min(wanted[t]) \in wanted[t] /\ Min(wanted[t]) <= s
  BY <1>2, <1>3, MinOfNaturals
<1>5. Min(wanted[t]) = s
  BY <1>2, <1>3, <1>4
<1>6. s \in Held(u)
  BY <1>1 DEF Held
<1>7. \A r \in wanted[u] : s < r
  <2>1. LocksOK(u)
    BY Typed
  <2> QED BY <1>6, <2>1 DEF LocksOK
<1> QED BY <1>3, <1>5, <1>7

\* Locks are requested in ascending order, so nobody waits in a circle.
LEMMA OrderedWaits ==
  ASSUME Inv
  PROVE  NoWaitCycle
<1> SUFFICES ASSUME NEW S \in (SUBSET Session) \ {{}},
                    \A t \in S : \E u \in S : WaitsFor(t, u)
             PROVE  FALSE
  BY DEF NoWaitCycle
<1>1. S \subseteq Session /\ S # {} /\ IsFiniteSet(S)
  BY FS_Subset, PgGcraAssumption
<1> DEFINE major == [t \in S |-> 0]
<1> DEFINE minor == [t \in S |-> Min(wanted[t])]
<1>2. \A t \in S : pc[t] = "locking" /\ wanted[t] \in SUBSET Nat /\ wanted[t] # {}
  <2> SUFFICES ASSUME NEW t \in S PROVE pc[t] = "locking" /\ wanted[t] \in SUBSET Nat /\ wanted[t] # {}
    OBVIOUS
  <2>1. PICK u \in S : WaitsFor(t, u)
    OBVIOUS
  <2>2. pc[t] = "locking" /\ wanted[t] # {}
    BY <2>1 DEF WaitsFor, NextShard
  <2>3. wanted[t] \subseteq Shards
    BY <1>1, Typed
  <2> QED BY <2>2, <2>3, ShardFacts
<1>3. major \in [S -> Nat] /\ minor \in [S -> Nat]
  <2>1. \A t \in S : Min(wanted[t]) \in Nat
    BY <1>2, MinOfNaturals
  <2> QED BY <2>1
<1>4. \A t \in S : \E u \in S : major[t] = major[u] /\ minor[t] < minor[u]
  <2> SUFFICES ASSUME NEW t \in S PROVE \E u \in S : major[t] = major[u] /\ minor[t] < minor[u]
    OBVIOUS
  <2>1. PICK u \in S : WaitsFor(t, u)
    OBVIOUS
  <2>2. \A r \in wanted[u] : Min(wanted[t]) < r
    BY <1>1, <1>2, <2>1, WaitsAreOrdered
  <2>3. Min(wanted[u]) \in wanted[u]
    BY <1>2, MinOfNaturals
  <2> QED BY <2>2, <2>3
<1> HIDE DEF major, minor
<1> QED BY <1>1, <1>3, <1>4, NoEndlessAscent

\* Ascending shard locks, and a cleanup that skips locked shards, cannot deadlock: no
\* sessions ever wait for each other in a cycle.
THEOREM DeadlockFreedom == Spec => []NoWaitCycle
<1>1. Inv => NoWaitCycle
  BY OrderedWaits
<1> QED BY <1>1, Invariance, PTL

----------------------------------------------------------------------------
(* Refinement: what the promise of SharedBucket needs besides Inv          *)

Distinct(checks) == \A i, j \in DOMAIN checks : checks[i].key = checks[j].key => i = j

KeysOf(checks) == {checks[j].key : j \in DOMAIN checks}

\* The arrival time and the ceiling of a check at an instant, from the committed rows.
FilledTo(c, at) == AtLeast(rows[c.key].tat, at * Policy[c.key].quota) + c.cost * Policy[c.key].period

TopAt(k, at) == at * Policy[k].quota + Policy[k].burst * Policy[k].period

\* A client's answer fits the phase of its transaction.
AnswerOK(t) ==
    /\ reply[t].outcome = "pending" => reply[t] = Pending
    /\ pc[t] = "idle" => reply[t].outcome # "pending"
    /\ pc[t] \in BeforeCommit => reply[t].outcome # "unknown"
    /\ pc[t] = "committing" => reply[t] \in {Pending, Reply("unknown", 0, 0)}
    /\ pc[t] = "committed" => reply[t] = Pending

\* An admission's writes are still the right ones for the rows that are stored, all of
\* them at the one instant it books.
ChargeOK(t) ==
    /\ Held(t) = ShardsOf(op[t].checks)
    /\ DOMAIN work[t] = KeysOf(op[t].checks)
    /\ \E at \in 0..peak :
        /\ \A s \in Held(t) : books[t][s].observed = at
        /\ \A j \in DOMAIN op[t].checks :
            /\ work[t][op[t].checks[j].key].tat = FilledTo(op[t].checks[j], at)
            /\ FilledTo(op[t].checks[j], at) <= TopAt(op[t].checks[j].key, at)

\* A cleanup deletes rows that are without debt at the instant it books.
ForgetOK(t) ==
    \A k \in DOMAIN work[t] :
        /\ work[t][k] = NoRow
        /\ rows[k].tat <= books[t][Shard[k]].observed * Policy[k].quota

DecisionOK(t) ==
    /\ pc[t] = "locking" => Distinct(op[t].checks)
    /\ pc[t] \in {"ready", "committing"} => IF IsCheck(op[t]) THEN ChargeOK(t) ELSE ForgetOK(t)

CallsInv == \A t \in Session : AnswerOK(t) /\ DecisionOK(t)

----------------------------------------------------------------------------
(* Arrival times and debts                                                 *)

\* What is left of an amount when another is taken off.
Left(x, y) == IF x > y THEN x - y ELSE 0

\* Draining in two steps is draining once.
LEMMA DrainTwice ==
  ASSUME NEW x \in Nat, NEW m \in Nat, NEW n \in Nat, NEW q \in Nat, m <= n
  PROVE  Left(Left(x, m * q), (n - m) * q) = Left(x, n * q)
<1> DEFINE a == m * q
<1> DEFINE b == n * q
<1> DEFINE d == (n - m) * q
<1>1. a \in Nat /\ b \in Nat /\ a <= b
  BY TimesMonotone
<1>2. d = b - a
  OBVIOUS
<1> HIDE DEF a, b, d
<1>3. Left(Left(x, a), d) = Left(x, b)
  BY <1>1, <1>2 DEF Left
<1> QED BY <1>3 DEF a, b, d

\* A stored arrival time and its expiry are natural numbers.
LEMMA RowFacts ==
  ASSUME Inv, NEW k \in Key
  PROVE  /\ rows[k].tat \in Nat /\ rows[k].expires \in Nat
         /\ ledger[Shard[k]].observed \in Nat /\ ledger[Shard[k]].observed <= peak /\ peak \in Nat
         /\ Policy[k].quota \in Nat \ {0} /\ Policy[k].period \in Nat \ {0} /\ Policy[k].burst \in Nat \ {0}
         /\ Debt(k) = Left(rows[k].tat, ledger[Shard[k]].observed * Policy[k].quota)
<1>1. Shard[k] \in Shards /\ Policy[k] \in GcraPolicy
  BY ShardFacts
<1>2. peak \in Nat
  BY PgGcraAssumption DEF Inv, TypeOK
<1>3. rows[k] \in [tat : 0..WideMax, expires : 0..BigintMax]
      /\ ledger[Shard[k]] \in [count : Nat, observed : 0..peak]
  BY <1>1 DEF Inv, TypeOK
<1>4. Debt(k) = Left(rows[k].tat, ledger[Shard[k]].observed * Policy[k].quota)
  BY DEF Debt, Left
<1>5. rows[k].tat \in Nat /\ rows[k].expires \in Nat
  BY <1>3
<1>6. ledger[Shard[k]].observed \in Nat /\ ledger[Shard[k]].observed <= peak
  BY <1>2, <1>3
<1>7. Policy[k].quota \in Nat \ {0} /\ Policy[k].period \in Nat \ {0} /\ Policy[k].burst \in Nat \ {0}
  BY <1>1 DEF GcraPolicy
<1> QED BY <1>2, <1>4, <1>5, <1>6, <1>7

\* A row whose expiry has come has no debt: expiry, cleanup and absence lose nothing.
LEMMA ExpiredIsDrained ==
  ASSUME Inv, NEW k \in Key, NEW now \in Nat, rows[k].expires <= now
  PROVE  rows[k].tat <= now * Policy[k].quota
<1>1. now * Policy[k].quota \in Nat
  BY RowFacts
<1>2. CASE rows[k] = NoRow
  BY <1>1, <1>2 DEF NoRow
<1>3. CASE rows[k] # NoRow
  <2>1. rows[k].expires = DivCeil(rows[k].tat, Policy[k].quota)
    BY <1>3 DEF Inv, RowsSound, SoundRow
  <2> DEFINE a == rows[k].tat
  <2> DEFINE q == Policy[k].quota
  <2>2. a \in Nat /\ q \in Nat \ {0} /\ (a + q - 1) \div q <= now
    BY <2>1, RowFacts DEF DivCeil
  <2> HIDE DEF a, q
  <2>3. a <= now * q
    BY <2>2, CeilingDivision
  <2> QED BY <2>3 DEF a, q
<1> QED BY <1>2, <1>3

\* The abstract bucket at a later instant, from the stored arrival time.
LEMMA DrainedFact ==
  ASSUME Inv, NEW k \in Key, NEW n \in Nat, ledger[Shard[k]].observed <= n
  PROVE  Shared!Drained(k, n) = Left(rows[k].tat, n * Policy[k].quota)
<1> DEFINE m == ledger[Shard[k]].observed
<1> DEFINE x == rows[k].tat
<1> DEFINE q == Policy[k].quota
<1>1. x \in Nat /\ m \in Nat /\ q \in Nat /\ Debt(k) = Left(x, m * q)
  BY RowFacts
<1>2. Shared!Drained(k, n) = Left(Debt(k), (n - m) * q)
  BY DEF Shared!Drained, Left
<1> HIDE DEF x, m, q
<1>3. Left(Left(x, m * q), (n - m) * q) = Left(x, n * q)
  <2>1. m <= n
    BY DEF m
  <2> QED BY <1>1, <2>1, DrainTwice
<1> QED BY <1>1, <1>2, <1>3 DEF x, q

\* The arrival time a charge leads to is a natural number.
LEMMA FilledFact ==
  ASSUME Inv, NEW c, c.key \in Key, c.cost \in Nat, NEW n \in Nat, ledger[Shard[c.key]].observed <= n
  PROVE  /\ n * Policy[c.key].quota \in Nat /\ FilledTo(c, n) \in Nat /\ TopAt(c.key, n) \in Nat
         /\ Shared!Filled(c, n) = FilledTo(c, n) - n * Policy[c.key].quota
         /\ Shared!Brim(c.key) = TopAt(c.key, n) - n * Policy[c.key].quota
         /\ Shared!Fits(c, n) <=> FilledTo(c, n) <= TopAt(c.key, n)
<1> DEFINE k == c.key
<1> DEFINE x == rows[k].tat
<1> DEFINE a == n * Policy[k].quota
<1> DEFINE b == c.cost * Policy[k].period
<1> DEFINE d == Policy[k].burst * Policy[k].period
<1>1. x \in Nat /\ a \in Nat /\ b \in Nat /\ d \in Nat
  BY RowFacts
<1>2. Shared!Filled(c, n) = Left(x, a) + b
  <2>1. Shared!Drained(k, n) = Left(x, a)
    BY DrainedFact
  <2> QED BY <2>1 DEF Shared!Filled
<1>3. FilledTo(c, n) = AtLeast(x, a) + b /\ TopAt(k, n) = a + d /\ Shared!Brim(k) = d
  BY DEF FilledTo, TopAt, Shared!Brim
<1>4. Shared!Fits(c, n) <=> Shared!Filled(c, n) <= Shared!Brim(k)
  BY DEF Shared!Fits
<1> HIDE DEF x, a, b, d, k
<1>5. AtLeast(x, a) = Left(x, a) + a /\ Left(x, a) \in Nat
  BY <1>1 DEF AtLeast, Left
<1>6. FilledTo(c, n) = Left(x, a) + a + b
  BY <1>1, <1>3, <1>5
<1>7. /\ FilledTo(c, n) \in Nat /\ TopAt(k, n) \in Nat
      /\ Shared!Filled(c, n) = FilledTo(c, n) - a
      /\ Shared!Brim(k) = TopAt(k, n) - a
      /\ Shared!Fits(c, n) <=> FilledTo(c, n) <= TopAt(k, n)
  BY <1>1, <1>2, <1>3, <1>4, <1>5, <1>6
<1> QED BY <1>1, <1>7 DEF a, k

\* What a decision computes, in the same terms: expired rows make no difference.
LEMMA EvaluatedFilled ==
  ASSUME Inv, NEW t \in Session, NEW j \in DOMAIN op[t].checks, NEW r,
         r = Evaluated(op[t].checks[j], Clamped(t))
  PROVE  LET c == op[t].checks[j]
             over == FilledTo(c, Clamped(t)) - TopAt(c.key, Clamped(t))
         IN  /\ r.kind \in {"allowed", "denied", "overflow"}
             /\ r.kind = "allowed" =>
                  /\ r.allowance.tat = FilledTo(c, Clamped(t))
                  /\ FilledTo(c, Clamped(t)) <= TopAt(c.key, Clamped(t))
             /\ r.kind = "denied" => over > 0 /\ r.retry = DivCeil(over, Policy[c.key].quota)
<1> DEFINE c == op[t].checks[j]
<1> DEFINE k == c.key
<1> DEFINE now == Clamped(t)
<1> DEFINE tat == IF rows[k].expires > now THEN rows[k].tat ELSE 0
<1>1. k \in Key /\ now \in Nat
  <2>1. op[t] \in Operation \cup {NoOperation}
    BY DEF Inv, Shape
  <2> QED BY <2>1, ChecksFacts, HeldFacts
<1>2. AtLeast(tat, now * Policy[k].quota) = AtLeast(rows[k].tat, now * Policy[k].quota)
  <2> DEFINE a == now * Policy[k].quota
  <2>1. a \in Nat /\ rows[k].tat \in Nat /\ rows[k].expires \in Nat
    BY <1>1, RowFacts
  <2>2. ~(rows[k].expires > now) => rows[k].tat <= a
    BY <1>1, <2>1, ExpiredIsDrained
  <2> HIDE DEF a, k, now
  <2> QED BY <2>1, <2>2 DEF AtLeast, a
<1>3. /\ FilledTo(c, now) = AtLeast(tat, now * Policy[k].quota) + c.cost * Policy[k].period
      /\ TopAt(k, now) = now * Policy[k].quota + Policy[k].burst * Policy[k].period
      /\ Over(Policy[k], c.cost, now, tat) = FilledTo(c, now) - TopAt(k, now)
  BY <1>2 DEF FilledTo, TopAt, Over
<1>4. /\ r.kind \in {"allowed", "denied", "overflow"}
      /\ r.kind = "allowed" =>
           /\ r.allowance.tat = AtLeast(tat, now * Policy[k].quota) + c.cost * Policy[k].period
           /\ r.allowance.tat <= now * Policy[k].quota + Policy[k].burst * Policy[k].period
      /\ r.kind = "denied" =>
           /\ Over(Policy[k], c.cost, now, tat) > 0
           /\ r.retry = DivCeil(Over(Policy[k], c.cost, now, tat), Policy[k].quota)
  BY EvaluatedFacts
<1> HIDE DEF tat, now, k, c
<1>5. /\ r.kind = "allowed" => r.allowance.tat = FilledTo(c, now) /\ FilledTo(c, now) <= TopAt(k, now)
      /\ r.kind = "denied" =>
           /\ FilledTo(c, now) - TopAt(k, now) > 0
           /\ r.retry = DivCeil(FilledTo(c, now) - TopAt(k, now), Policy[k].quota)
  BY <1>3, <1>4
<1> QED BY <1>4, <1>5 DEF tat, now, k, c

----------------------------------------------------------------------------
(* Steps that change one call                                              *)

OthersKept(t) ==
    \A u \in Session \ {t} :
        /\ pc'[u] = pc[u] /\ op'[u] = op[u] /\ work'[u] = work[u] /\ books'[u] = books[u]
        /\ reply'[u] = reply[u] /\ Held(u)' = Held(u)

\* A call whose session does not move keeps its answer and its decision.
LEMMA CallUndisturbed ==
  ASSUME Inv, CallsInv, NEW u \in Session,
         pc'[u] = pc[u], op'[u] = op[u], work'[u] = work[u], books'[u] = books[u],
         reply'[u] = reply[u], Held(u)' = Held(u), peak \in Nat, peak' \in Nat, peak <= peak',
         \A k \in Key : Shard[k] \in Held(u) => rows'[k] = rows[k]
  PROVE  AnswerOK(u)' /\ DecisionOK(u)'
<1>1. AnswerOK(u) /\ DecisionOK(u)
  BY DEF CallsInv
<1>2. AnswerOK(u)'
  BY <1>1 DEF AnswerOK, Pending, Reply
<1>3. (Distinct(op[u].checks)' <=> Distinct(op[u].checks)) /\ ShardsOf(op[u].checks)' = ShardsOf(op[u].checks)
      /\ KeysOf(op[u].checks)' = KeysOf(op[u].checks) /\ (IsCheck(op[u])' <=> IsCheck(op[u]))
  BY DEF Distinct, ShardsOf, KeysOf, IsCheck
<1>4. CASE pc[u] \notin {"ready", "committing"}
  BY <1>1, <1>2, <1>3, <1>4 DEF DecisionOK
<1>5. CASE pc[u] \in {"ready", "committing"}
  <2>1. \A k \in DOMAIN work[u] : k \in Key /\ rows'[k] = rows[k]
    BY <1>5, Typed DEF WorkOK
  <2>2. ASSUME ChargeOK(u) PROVE ChargeOK(u)'
    <3>1. PICK at \in 0..peak :
            /\ \A s \in Held(u) : books[u][s].observed = at
            /\ \A j \in DOMAIN op[u].checks :
                /\ work[u][op[u].checks[j].key].tat = FilledTo(op[u].checks[j], at)
                /\ FilledTo(op[u].checks[j], at) <= TopAt(op[u].checks[j].key, at)
      BY <2>2 DEF ChargeOK
    <3>2. \A j \in DOMAIN op[u].checks : op[u].checks[j].key \in DOMAIN work[u]
      BY <2>2 DEF ChargeOK, KeysOf
    <3>3. \A j \in DOMAIN op[u].checks : FilledTo(op[u].checks[j], at)' = FilledTo(op[u].checks[j], at)
      BY <2>1, <3>2 DEF FilledTo
    <3>4. at \in 0..peak'
      OBVIOUS
    <3>5. /\ \A s \in Held(u)' : books'[u][s].observed = at
          /\ \A j \in DOMAIN op'[u].checks :
                /\ work'[u][op'[u].checks[j].key].tat = FilledTo(op[u].checks[j], at)'
                /\ FilledTo(op[u].checks[j], at)' <= TopAt(op'[u].checks[j].key, at)
      BY <3>1, <3>3
    <3>6. Held(u)' = ShardsOf(op[u].checks)' /\ DOMAIN work'[u] = KeysOf(op[u].checks)'
      BY <1>3, <2>2 DEF ChargeOK
    <3> QED BY <3>4, <3>5, <3>6 DEF ChargeOK, TopAt
  <2>3. ASSUME ForgetOK(u) PROVE ForgetOK(u)'
    BY <2>1, <2>3 DEF ForgetOK
  <2> QED BY <1>1, <1>2, <1>3, <1>5, <2>2, <2>3 DEF DecisionOK
<1> QED BY <1>4, <1>5

\* A step that writes nothing keeps the facts about every other call.
LEMMA CallsStep ==
  ASSUME Inv, CallsInv, NEW t \in Session, UNCHANGED <<rows, peak>>, OthersKept(t),
         AnswerOK(t)', DecisionOK(t)'
  PROVE  CallsInv'
<1> SUFFICES ASSUME NEW u \in Session PROVE AnswerOK(u)' /\ DecisionOK(u)'
  BY DEF CallsInv
<1>1. CASE u = t
  BY <1>1
<1>2. CASE u # t
  <2>1. peak \in Nat /\ peak' \in Nat /\ peak <= peak'
    BY PgGcraAssumption DEF Inv, TypeOK
  <2> QED BY <1>2, <2>1, CallUndisturbed DEF OthersKept
<1> QED BY <1>1, <1>2

\* What the abstract client of session t sees.
Told(t) == IF IsCheck(op[t]) THEN reply[t] ELSE Reply("none", 0, 0)

\* The calls of all other sessions look the same after the step.
LEMMA OthersSeen ==
  ASSUME NEW t \in Session, OthersKept(t)
  PROVE  \A u \in Session \ {t} :
           op'[u].checks = op[u].checks /\ CallStatus(u)' = CallStatus(u) /\ Told(u)' = Told(u)
BY DEF OthersKept, CallStatus, Told, IsCheck, Waiting, Pending, Reply

\* The buckets are what the stored rows and watermarks say.
LEMMA SameBuckets ==
  ASSUME rows' = rows, ledger' = ledger
  PROVE  /\ [k \in Key |-> Debt(k)'] = [k \in Key |-> Debt(k)]
         /\ [k \in Key |-> ledger'[Shard[k]].observed] = [k \in Key |-> ledger[Shard[k]].observed]
BY DEF Debt

\* A step that changes nothing callers can see is a stutter.
LEMMA StutterRefines ==
  ASSUME UNCHANGED <<rows, ledger, clock, peak>>,
         \A u \in Session : op'[u].checks = op[u].checks /\ CallStatus(u)' = CallStatus(u) /\ Told(u)' = Told(u)
  PROVE  UNCHANGED Shared!vars
<1>1. [t \in Session |-> op'[t].checks] = [t \in Session |-> op[t].checks]
  OBVIOUS
<1>2. [t \in Session |-> CallStatus(t)'] = [t \in Session |-> CallStatus(t)]
  OBVIOUS
<1>3. [t \in Session |-> Told(t)'] = [t \in Session |-> Told(t)]
  OBVIOUS
<1> QED BY <1>1, <1>2, <1>3, SameBuckets DEF Shared!vars, Told

\* A step of the abstract specification for one client is a step of it.
LEMMA ClientStep ==
  ASSUME NEW t \in Session, OthersKept(t),
         \/ Shared!Invoke(t) \/ Shared!Charge(t) \/ Shared!Allow(t) \/ Shared!Deny(t)
         \/ Shared!Refuse(t) \/ Shared!Fail(t) \/ Shared!Doubt(t) \/ Shared!Settle(t)
  PROVE  Shared!Next
<1>1. \A u \in Session \ {t} :
        op'[u].checks = op[u].checks /\ CallStatus(u)' = CallStatus(u) /\ Told(u)' = Told(u)
  BY OthersSeen
<1>2. \A u \in Session \ {t} :
        /\ [v \in Session |-> op'[v].checks][u] = [v \in Session |-> op[v].checks][u]
        /\ [v \in Session |-> CallStatus(v)'][u] = [v \in Session |-> CallStatus(v)][u]
        /\ [v \in Session |-> Told(v)'][u] = [v \in Session |-> Told(v)][u]
  BY <1>1
<1> QED BY <1>2 DEF Shared!Next, Told

\* Steps the abstract clients do not see.
LEMMA QuietRefines ==
  ASSUME NEW t \in Session, UNCHANGED <<rows, ledger, clock, peak>>, OthersKept(t),
         op'[t].checks = op[t].checks, CallStatus(t)' = CallStatus(t), Told(t)' = Told(t)
  PROVE  UNCHANGED Shared!vars
<1>1. \A u \in Session :
        op'[u].checks = op[u].checks /\ CallStatus(u)' = CallStatus(u) /\ Told(u)' = Told(u)
  BY OthersSeen
<1> QED BY <1>1, StutterRefines

\* A cleanup has no client: whatever it does to its own call is a stutter.
LEMMA CleanupRefines ==
  ASSUME NEW t \in Session, UNCHANGED <<rows, ledger, clock, peak>>, OthersKept(t),
         op' = op, ~IsCheck(op[t])
  PROVE  UNCHANGED Shared!vars
<1>1. CallStatus(t)' = CallStatus(t) /\ Told(t)' = Told(t)
  BY DEF CallStatus, Told, IsCheck, Reply
<1> QED BY <1>1, QuietRefines

\* A transaction goes on to its next statement.
LEMMA PhaseRefines ==
  ASSUME Inv, CallsInv, NEW t \in Session, UNCHANGED <<rows, ledger, clock, peak>>, OthersKept(t),
         UNCHANGED <<op, reply>>, NEW p, pc'[t] = p,
         pc[t] \in BeforeCommit, p \in BeforeCommit \/ (p = "committing" /\ Waiting(t)),
         DecisionOK(t)'
  PROVE  CallsInv' /\ UNCHANGED Shared!vars
<1>1. p \notin {"idle", "committed"} /\ pc[t] \notin {"idle", "committed"}
  BY DEF BeforeCommit
<1>2. AnswerOK(t)'
  <2>1. AnswerOK(t)
    BY DEF CallsInv
  <2> QED BY <1>1, <2>1 DEF AnswerOK, Waiting, BeforeCommit, Pending, Reply
<1>3. CallStatus(t)' = CallStatus(t) /\ Told(t)' = Told(t)
  BY <1>1 DEF CallStatus, Told, IsCheck, Waiting, Pending, Reply
<1> QED BY <1>2, <1>3, CallsStep, QuietRefines

\* Every step of a session leaves the others' calls and locks alone.
LEMMA StepKeepsOthers ==
  ASSUME Inv, NEW t \in Session,
         \/ Begin(t) \/ LockShard(t) \/ Decide(t) \/ Probe(t) \/ DeleteExpired(t)
         \/ SendCommit(t) \/ ServerCommit(t) \/ Confirm(t)
         \/ LoseConfirmation(t) \/ FailCommit(t) \/ Abandon(t) \/ Rollback(t)
  PROVE  OthersKept(t)
<1> SUFFICES ASSUME NEW u \in Session \ {t}
             PROVE  /\ pc'[u] = pc[u] /\ op'[u] = op[u] /\ work'[u] = work[u] /\ books'[u] = books[u]
                    /\ reply'[u] = reply[u] /\ Held(u)' = Held(u)
  BY DEF OthersKept
<1>1. CASE Begin(t)
  BY <1>1, Typed DEF Begin, Held
<1>2. CASE LockShard(t)
  <2>1. UNCHANGED <<pc, op, work, books, reply>>
    BY <1>2 DEF LockShard
  <2>2. PICK s \in Shards : holder[s] = None /\ holder' = [holder EXCEPT ![s] = t]
    BY <1>2 DEF LockShard
  <2>3. Held(u)' = Held(u)
    BY <2>2, Typed DEF Held
  <2> QED BY <2>1, <2>3
<1>3. CASE Decide(t)
  <2>1. UNCHANGED <<op, holder>>
    BY <1>3 DEF Decide
  <2>2. Held(u)' = Held(u)
    BY <2>1 DEF Held
  <2>3. CASE UNCHANGED <<pc, work, books>> /\ \E r : reply' = [reply EXCEPT ![t] = r]
    BY <2>1, <2>2, <2>3, Typed
  <2>4. CASE /\ \E w : work' = [work EXCEPT ![t] = w]
             /\ \E b : books' = [books EXCEPT ![t] = b]
             /\ pc' = [pc EXCEPT ![t] = "ready"] /\ UNCHANGED reply
    BY <2>1, <2>2, <2>4, Typed
  <2> QED BY <1>3, <2>3, <2>4 DEF Decide
<1>4. CASE Probe(t)
  BY <1>4, Typed DEF Probe, Held
<1>5. CASE DeleteExpired(t)
  <2>1. /\ UNCHANGED <<op, holder, reply>> /\ pc' = [pc EXCEPT ![t] = "ready"]
        /\ \E w : work' = [work EXCEPT ![t] = w]
        /\ \E b : books' = [books EXCEPT ![t] = b]
    BY <1>5 DEF DeleteExpired
  <2> QED BY <2>1, Typed DEF Held
<1>6. CASE SendCommit(t) \/ Confirm(t) \/ LoseConfirmation(t) \/ Abandon(t)
  BY <1>6, Typed DEF SendCommit, Confirm, LoseConfirmation, Abandon, Held
<1>7. CASE ServerCommit(t) \/ FailCommit(t) \/ Rollback(t)
  <2>1. EndTransaction(t) /\ op' = op /\ pc'[u] = pc[u] /\ reply'[u] = reply[u]
    BY <1>7, Typed DEF ServerCommit, FailCommit, Rollback
  <2>2. work'[u] = work[u] /\ books'[u] = books[u]
    BY <2>1, Typed DEF EndTransaction
  <2>3. Held(u)' = Held(u)
    BY <2>1, Typed DEF EndTransaction, Held
  <2> QED BY <2>1, <2>2, <2>3
<1> QED BY <1>1, <1>2, <1>3, <1>4, <1>5, <1>6, <1>7

----------------------------------------------------------------------------
(* Every step is a step of the shared buckets, or invisible to them        *)

\* validate_batch lets no counter be named twice.
LEMMA ValidIsDistinct ==
  ASSUME NEW o \in Operation, ValidateBatch(o.checks, MaxBatchSize) = "Valid"
  PROVE  Distinct(o.checks)
<1> DEFINE c == o.checks
<1> DEFINE bad == {i \in 1..Len(c) : MixedModeAt(c, i) \/ DuplicateAt(c, i)}
<1>1. DOMAIN c = 1..Len(c) /\ Len(c) \in Nat
  BY ChecksFacts
<1>2. bad = {}
  <2> SUFFICES ASSUME bad # {} PROVE FALSE
    OBVIOUS
  <2>1. Len(c) # 0 /\ ~(Len(c) > MaxBatchSize)
    BY <1>1, PgGcraAssumption DEF ValidateBatch
  <2> QED BY <2>1 DEF ValidateBatch
<1>3. \A i \in DOMAIN c : \A j \in 1..(i - 1) : c[j].key # c[i].key
  BY <1>1, <1>2 DEF DuplicateAt
<1> HIDE DEF c
<1>4. ASSUME NEW i \in DOMAIN c, NEW j \in DOMAIN c, c[i].key = c[j].key PROVE i = j
  <2>1. i \in Nat /\ j \in Nat /\ i >= 1 /\ j >= 1
    BY <1>1
  <2>2. CASE i < j
    BY <1>3, <1>4, <2>1, <2>2
  <2>3. CASE j < i
    BY <1>3, <1>4, <2>1, <2>3
  <2> QED BY <2>1, <2>2, <2>3
<1> QED BY <1>4 DEF Distinct, c

\* Begin maps to a step of the abstract specification or to a stutter.
LEMMA BeginRefines ==
  ASSUME Inv, CallsInv, NEW t \in Session, Begin(t)
  PROVE  CallsInv' /\ Shared!Next
<1>1. UNCHANGED <<rows, ledger, clock, peak>> /\ pc[t] = "idle" /\ OthersKept(t)
  BY StepKeepsOthers DEF Begin
<1>2. PICK o \in Operation :
        LET valid == IsCheck(o) => ValidateBatch(o.checks, MaxBatchSize) = "Valid"
        IN  /\ op' = [op EXCEPT ![t] = o]
            /\ pc' = [pc EXCEPT ![t] = IF ~valid THEN "idle"
                                       ELSE IF IsCheck(o) THEN "locking" ELSE "probe"]
            /\ reply' = [reply EXCEPT ![t] = IF valid THEN Pending ELSE Reply("invalid", 0, 0)]
  BY DEF Begin
<1>3. /\ op'[t] = o
      /\ \/ /\ IsCheck(o) /\ pc'[t] = "locking" /\ reply'[t] = Pending
            /\ ValidateBatch(o.checks, MaxBatchSize) = "Valid"
         \/ ~IsCheck(o) /\ pc'[t] = "probe" /\ reply'[t] = Pending
         \/ IsCheck(o) /\ pc'[t] = "idle" /\ reply'[t] = Reply("invalid", 0, 0)
  BY <1>2, Typed
<1>4. AnswerOK(t)'
  BY <1>3 DEF AnswerOK, Pending, Reply, BeforeCommit
<1>5. DecisionOK(t)'
  <2>1. pc'[t] = "locking" => Distinct(o.checks)
    BY <1>3, ValidIsDistinct
  <2> QED BY <1>3, <2>1 DEF DecisionOK, Distinct
<1>6. Shared!Invoke(t)
  <2>1. CallStatus(t) = "idle" /\ Told(t).outcome # "pending"
    <3>1. reply[t].outcome # "pending"
      BY <1>1 DEF CallsInv, AnswerOK
    <3> QED BY <1>1, <3>1 DEF CallStatus, Told, Reply
  <2>2. \/ CallStatus(t)' = "open" /\ Told(t)'.outcome = "pending"
        \/ CallStatus(t)' = "idle" /\ Told(t)'.outcome \in {"invalid", "none"}
    <3>1. CASE IsCheck(o) /\ pc'[t] = "locking" /\ reply'[t] = Pending
      BY <1>3, <3>1 DEF CallStatus, Told, Waiting, Pending, Reply
    <3>2. CASE IsCheck(o) /\ pc'[t] = "idle" /\ reply'[t] = Reply("invalid", 0, 0)
      BY <1>3, <3>2 DEF CallStatus, Told, Reply
    <3>3. CASE ~IsCheck(o)
      BY <1>3, <3>3 DEF CallStatus, Told, Reply
    <3> QED BY <1>3, <3>1, <3>2, <3>3
  <2> QED BY <1>1, <2>1, <2>2, SameBuckets DEF Shared!Invoke, Shared!Waiting, Told
<1> QED BY <1>1, <1>4, <1>5, <1>6, CallsStep, ClientStep

\* A charge stays as it was decided while nobody touches its rows.
LEMMA ChargeKept ==
  ASSUME NEW t \in Session, rows' = rows, peak' = peak, op'[t] = op[t], work'[t] = work[t],
         books'[t] = books[t], Held(t)' = Held(t), ChargeOK(t)
  PROVE  ChargeOK(t)'
<1> DEFINE c == op[t].checks
<1>1. PICK at \in 0..peak :
        /\ \A s \in Held(t) : books[t][s].observed = at
        /\ \A j \in DOMAIN c : /\ work[t][c[j].key].tat = FilledTo(c[j], at)
                             /\ FilledTo(c[j], at) <= TopAt(c[j].key, at)
  BY Zenon DEF ChargeOK
<1>2. ShardsOf(op[t].checks)' = ShardsOf(c) /\ KeysOf(op[t].checks)' = KeysOf(c)
  BY DEF ShardsOf, KeysOf
<1>4. \A j \in DOMAIN c : FilledTo(op[t].checks[j], at)' = FilledTo(c[j], at)
  BY DEF FilledTo
<1>5. \A j \in DOMAIN c : TopAt(op[t].checks[j].key, at)' = TopAt(c[j].key, at)
  BY DEF TopAt
<1>6. Held(t) = ShardsOf(c) /\ DOMAIN work[t] = KeysOf(c)
  BY Zenon DEF ChargeOK
<1>7. \A j \in DOMAIN op'[t].checks :
        /\ work'[t][op'[t].checks[j].key].tat = FilledTo(op[t].checks[j], at)'
        /\ FilledTo(op[t].checks[j], at)' <= TopAt(op[t].checks[j].key, at)'
  BY <1>1, <1>4, <1>5
<1> QED BY <1>1, <1>2, <1>6, <1>7 DEF ChargeOK

\* Locking, probing and sending COMMIT are invisible to callers.
LEMMA QuietStepsRefine ==
  ASSUME Inv, CallsInv, NEW t \in Session, LockShard(t) \/ Probe(t) \/ SendCommit(t)
  PROVE  CallsInv' /\ UNCHANGED Shared!vars
<1>1. /\ UNCHANGED <<rows, ledger, clock, peak>> /\ UNCHANGED <<op, reply, work, books>> /\ OthersKept(t)
  BY StepKeepsOthers DEF LockShard, Probe, SendCommit
<1>2. AnswerOK(t) /\ DecisionOK(t)
  BY DEF CallsInv
<1>3. (Distinct(op[t].checks)' <=> Distinct(op[t].checks)) /\ (IsCheck(op[t])' <=> IsCheck(op[t]))
  BY <1>1 DEF Distinct, IsCheck
<1>4. CASE LockShard(t)
  <2>1. pc[t] = "locking" /\ pc'[t] = "locking"
    BY <1>4 DEF LockShard
  <2>2. DecisionOK(t)'
    BY <1>2, <1>3, <2>1 DEF DecisionOK
  <2> QED BY <1>1, <2>1, <2>2, PhaseRefines DEF BeforeCommit
<1>5. CASE Probe(t)
  <2>1. pc[t] = "probe" /\ pc'[t] = "delete"
    BY <1>5, Typed DEF Probe
  <2>2. DecisionOK(t)'
    BY <2>1 DEF DecisionOK
  <2> QED BY <1>1, <2>1, <2>2, PhaseRefines DEF BeforeCommit
<1>6. CASE SendCommit(t)
  <2>1. pc[t] = "ready" /\ pc'[t] = "committing" /\ Waiting(t) /\ holder' = holder
    BY <1>6, Typed DEF SendCommit
  <2>2. Held(t)' = Held(t) /\ ShardsOf(op[t].checks)' = ShardsOf(op[t].checks)
        /\ KeysOf(op[t].checks)' = KeysOf(op[t].checks) /\ \A c, at : FilledTo(c, at)' = FilledTo(c, at)
    BY <1>1, <2>1 DEF Held, ShardsOf, KeysOf, FilledTo
  <2>3. ChargeOK(t) => ChargeOK(t)'
    BY <1>1, <2>2, ChargeKept
  <2>4. ForgetOK(t) => ForgetOK(t)'
    BY <1>1 DEF ForgetOK
  <2>5. DecisionOK(t)'
    BY <1>2, <1>3, <2>1, <2>3, <2>4 DEF DecisionOK
  <2> QED BY <1>1, <2>1, <2>5, PhaseRefines DEF BeforeCommit
<1> QED BY <1>4, <1>5, <1>6

\* CLEANUP_DELETE: what has expired by the booked instant has no debt left.
LEMMA DeleteRefines ==
  ASSUME Inv, CallsInv, NEW t \in Session, DeleteExpired(t)
  PROVE  CallsInv' /\ UNCHANGED Shared!vars
<1>1. /\ UNCHANGED <<rows, ledger, clock, peak>> /\ UNCHANGED <<op, reply, holder>> /\ OthersKept(t)
      /\ pc[t] = "delete" /\ pc' = [pc EXCEPT ![t] = "ready"]
  BY StepKeepsOthers DEF DeleteExpired
<1>2. PICK S \in SUBSET {k \in Key : Exists(k) /\ Shard[k] \in Held(t) /\ rows[k].expires <= Clamped(t)} :
        /\ work' = [work EXCEPT ![t] = [k \in S |-> NoRow]]
        /\ books' = [books EXCEPT ![t] =
             [s \in Held(t) |-> [count |-> ledger[s].count - InShard(S, s), observed |-> Clamped(t)]]]
  BY <1>1 DEF DeleteExpired, Advanced
<1>3. work'[t] = [k \in S |-> NoRow] /\ \A s \in Held(t) : books'[t][s].observed = Clamped(t)
  BY <1>2, Typed
<1>4. pc'[t] = "ready" /\ ~IsCheck(op[t])
  BY <1>1, Typed DEF LocksOK
<1>5. ForgetOK(t)'
  <2> SUFFICES ASSUME NEW k \in S
               PROVE  /\ work'[t][k] = NoRow
                      /\ rows[k].tat <= books'[t][Shard[k]].observed * Policy[k].quota
    BY <1>1, <1>3 DEF ForgetOK
  <2>1. k \in Key /\ rows[k].expires <= Clamped(t) /\ Clamped(t) \in Nat /\ Shard[k] \in Held(t)
    BY HeldFacts
  <2>2. rows[k].tat <= Clamped(t) * Policy[k].quota
    BY <2>1, ExpiredIsDrained
  <2> QED BY <1>3, <2>1, <2>2
<1>6. DecisionOK(t)'
  BY <1>1, <1>4, <1>5 DEF DecisionOK, IsCheck
<1> QED BY <1>1, <1>4, <1>6, PhaseRefines DEF BeforeCommit

\* Steps that answer the client or end the transaction without its writes.
LEMMA EndingRefines ==
  ASSUME Inv, CallsInv, NEW t \in Session,
         Confirm(t) \/ LoseConfirmation(t) \/ FailCommit(t) \/ Abandon(t) \/ Rollback(t)
  PROVE  CallsInv' /\ [Shared!Next]_Shared!vars
<1>1. UNCHANGED <<rows, ledger, clock, peak>> /\ op' = op /\ AnswerOK(t) /\ DecisionOK(t)
  BY DEF Confirm, LoseConfirmation, FailCommit, Abandon, Rollback, CallsInv
<1>2. OthersKept(t)
  BY StepKeepsOthers
<1>3. \/ /\ pc[t] = "committed" /\ pc'[t] = "idle"
         /\ reply'[t] = Reply(IF IsCheck(op[t]) THEN "allowed" ELSE "cleaned", 0, 0)
      \/ /\ pc[t] \in {"committing", "committed"} /\ reply[t] = Pending
         /\ reply'[t] = Reply("unknown", 0, 0) /\ pc'[t] = (IF pc[t] = "committed" THEN "idle" ELSE pc[t])
         /\ UNCHANGED <<work, books, holder>>
      \/ pc[t] = "committing" /\ pc'[t] = "idle" /\ reply'[t] = Reply("unknown", 0, 0)
      \/ /\ pc[t] \in BeforeCommit /\ reply[t] = Pending /\ pc' = pc
         /\ reply'[t] = Reply("not_consumed", 0, 0) /\ UNCHANGED <<work, books, holder>>
      \/ pc[t] \in BeforeCommit /\ reply[t] # Pending /\ pc'[t] = "idle" /\ reply'[t] = reply[t]
  BY Typed DEF Confirm, LoseConfirmation, FailCommit, Abandon, Rollback, Waiting
<1>4. AnswerOK(t)'
  BY <1>1, <1>3 DEF AnswerOK, Pending, Reply, BeforeCommit
<1>5. DecisionOK(t)'
  <2>1. CASE pc'[t] = "idle"
    BY <2>1 DEF DecisionOK
  <2>2. CASE pc'[t] = pc[t] /\ UNCHANGED <<work, books, holder>>
    <3>1. /\ Held(t)' = Held(t) /\ ShardsOf(op[t].checks)' = ShardsOf(op[t].checks)
          /\ KeysOf(op[t].checks)' = KeysOf(op[t].checks) /\ (IsCheck(op[t])' <=> IsCheck(op[t]))
          /\ (Distinct(op[t].checks)' <=> Distinct(op[t].checks))
      BY <1>1, <2>2 DEF Held, ShardsOf, KeysOf, IsCheck, Distinct
    <3>2. ChargeOK(t) => ChargeOK(t)'
      BY <1>1, <2>2, <3>1, ChargeKept
    <3>3. ForgetOK(t) => ForgetOK(t)'
      BY <1>1, <2>2 DEF ForgetOK
    <3> QED BY <1>1, <2>2, <3>1, <3>2, <3>3 DEF DecisionOK
  <2> QED BY <1>3, <2>1, <2>2
<1>6. CallsInv'
  BY <1>1, <1>2, <1>4, <1>5, CallsStep
<1>7. CASE ~IsCheck(op[t])
  BY <1>1, <1>2, <1>6, <1>7, CleanupRefines
<1>8. CASE IsCheck(op[t])
  <2>1. Told(t) = reply[t] /\ Told(t)' = reply'[t]
    BY <1>1, <1>8 DEF Told, IsCheck
  <2>2. CASE /\ pc[t] = "committed" /\ pc'[t] = "idle" /\ reply'[t] = Reply("allowed", 0, 0)
    <3>1. CallStatus(t) = "charged" /\ CallStatus(t)' = "idle" /\ reply[t].outcome = "pending"
      BY <1>1, <1>8, <2>2 DEF CallStatus, AnswerOK, Pending, Reply
    <3>2. Shared!Allow(t)
      BY <1>1, <2>1, <2>2, <3>1, SameBuckets DEF Shared!Allow, Shared!Answer, Shared!Waiting, Told, Reply
    <3> QED BY <1>2, <1>6, <3>2, ClientStep
  <2>3. CASE /\ pc[t] \in {"committing", "committed"} /\ reply[t] = Pending
             /\ reply'[t] = Reply("unknown", 0, 0) /\ pc'[t] \in {"idle", pc[t]}
             /\ pc[t] = "committed" => pc'[t] = "idle"
    <3>1. /\ CallStatus(t) = IF pc[t] = "committed" THEN "charged" ELSE "open"
          /\ CallStatus(t)' \in {"idle", IF pc[t] = "committed" THEN "idle" ELSE "open"}
          /\ reply[t].outcome = "pending"
      BY <1>1, <1>8, <2>3 DEF CallStatus, Waiting, Pending, Reply, IsCheck
    <3>2. Shared!Doubt(t)
      BY <1>1, <2>1, <2>3, <3>1, SameBuckets DEF Shared!Doubt, Shared!Answer, Shared!Waiting, Told, Reply
    <3> QED BY <1>2, <1>6, <3>2, ClientStep
  <2>4. CASE pc[t] = "committing" /\ pc'[t] = "idle" /\ reply'[t] = Reply("unknown", 0, 0) /\ reply[t] # Pending
    <3>1. reply[t] = Reply("unknown", 0, 0)
      BY <1>1, <2>4 DEF AnswerOK
    <3>2. CallStatus(t) = "open" /\ CallStatus(t)' = "idle" /\ reply[t].outcome = "unknown"
      BY <1>1, <1>8, <2>4, <3>1 DEF CallStatus, Reply
    <3>3. Shared!Settle(t)
      BY <1>1, <2>1, <2>4, <3>1, <3>2, SameBuckets DEF Shared!Settle, Told
    <3> QED BY <1>2, <1>6, <3>3, ClientStep
  <2>5. CASE pc[t] \in BeforeCommit /\ reply[t] = Pending /\ pc' = pc /\ reply'[t] = Reply("not_consumed", 0, 0)
    <3>1. CallStatus(t) = "open" /\ CallStatus(t)' = "idle" /\ reply[t].outcome = "pending"
      BY <1>1, <1>8, <2>5 DEF CallStatus, Waiting, Pending, Reply, IsCheck, BeforeCommit
    <3>2. Shared!Fail(t)
      BY <1>1, <2>1, <2>5, <3>1, SameBuckets DEF Shared!Fail, Shared!Answer, Shared!Waiting, Told, Reply
    <3> QED BY <1>2, <1>6, <3>2, ClientStep
  <2>6. CASE pc[t] \in BeforeCommit /\ reply[t] # Pending /\ pc'[t] = "idle" /\ reply'[t] = reply[t]
    <3>1. CallStatus(t) = "idle" /\ CallStatus(t)' = "idle"
      BY <1>1, <2>6 DEF CallStatus, Waiting, AnswerOK, BeforeCommit
    <3>2. Told(t)' = Told(t)
      BY <2>1, <2>6
    <3> QED BY <1>1, <1>2, <1>6, <3>1, <3>2, QuietRefines
  <2> QED BY <1>3, <1>8, <2>2, <2>3, <2>4, <2>5, <2>6
<1> QED BY <1>7, <1>8

----------------------------------------------------------------------------
(* Committing                                                              *)

\* What a commit does to the stored rows and watermarks.
LEMMA CommitFacts ==
  ASSUME Inv, NEW t \in Session, ServerCommit(t)
  PROVE  /\ pc[t] = "committing" /\ UNCHANGED <<clock, peak, op, reply>>
         /\ pc'[t] = IF Waiting(t) THEN "committed" ELSE "idle"
         /\ \A k \in Key : /\ rows'[k] = IF k \in DOMAIN work[t] THEN work[t][k] ELSE rows[k]
                           /\ Shard[k] \notin Held(t) => rows'[k] = rows[k]
         /\ \A s \in Shards : ledger'[s] = IF s \in Held(t) THEN books[t][s] ELSE ledger[s]
         /\ \A k \in DOMAIN work[t] : k \in Key /\ Shard[k] \in Held(t)
         /\ \A s \in Shards : /\ ledger'[s].observed \in Nat
                              /\ ledger[s].observed <= ledger'[s].observed
                              /\ ledger'[s].observed <= peak
<1>1. /\ pc[t] = "committing" /\ UNCHANGED <<clock, peak, op, reply>>
      /\ pc'[t] = IF Waiting(t) THEN "committed" ELSE "idle"
      /\ rows' = [k \in Key |-> IF k \in DOMAIN work[t] THEN work[t][k] ELSE rows[k]]
      /\ ledger' = [s \in Shards |-> IF s \in DOMAIN books[t] THEN books[t][s] ELSE ledger[s]]
  BY Typed DEF ServerCommit
<1>2. /\ DOMAIN books[t] = Held(t)
      /\ \A k \in DOMAIN work[t] : k \in Key /\ Shard[k] \in Held(t)
      /\ \A s \in Held(t) : /\ books[t][s] \in [count : Nat, observed : 0..peak]
                            /\ ledger[s].observed <= books[t][s].observed
  BY <1>1, Typed DEF WorkOK
<1>3. peak \in Nat /\ \A s \in Shards : ledger[s] \in [count : Nat, observed : 0..peak]
  BY PgGcraAssumption DEF Inv, TypeOK
<1>4. \A s \in Shards : ledger'[s] = IF s \in Held(t) THEN books[t][s] ELSE ledger[s]
  BY <1>1, <1>2
<1>5. ASSUME NEW s \in Shards
      PROVE  /\ ledger'[s].observed \in Nat
             /\ ledger[s].observed <= ledger'[s].observed
             /\ ledger'[s].observed <= peak
  <2>1. CASE s \in Held(t)
    <3>1. ledger'[s] = books[t][s] /\ books[t][s].observed \in 0..peak /\ ledger[s].observed <= books[t][s].observed
      BY <1>2, <1>4, <2>1
    <3> QED BY <1>3, <3>1
  <2>2. CASE s \notin Held(t)
    <3>1. ledger'[s] = ledger[s] /\ ledger[s].observed \in 0..peak
      BY <1>3, <1>4, <2>2
    <3> QED BY <1>3, <3>1
  <2> QED BY <2>1, <2>2
<1>6. \A k \in Key : /\ rows'[k] = IF k \in DOMAIN work[t] THEN work[t][k] ELSE rows[k]
                     /\ Shard[k] \notin Held(t) => rows'[k] = rows[k]
  BY <1>1, <1>2
<1> QED BY <1>1, <1>2, <1>4, <1>5, <1>6

\* A commit keeps the facts about every call, those of other sessions included.
LEMMA CommitCalls ==
  ASSUME Inv, CallsInv, NEW t \in Session, ServerCommit(t)
  PROVE  CallsInv' /\ OthersKept(t)
<1>1. OthersKept(t)
  BY StepKeepsOthers
<1> SUFFICES ASSUME NEW u \in Session PROVE AnswerOK(u)' /\ DecisionOK(u)'
  BY <1>1 DEF CallsInv
<1>2. CASE u = t
  <2>1. /\ pc[t] = "committing" /\ reply' = reply /\ AnswerOK(t)
        /\ pc'[t] = IF Waiting(t) THEN "committed" ELSE "idle"
    BY CommitFacts DEF CallsInv
  <2>2. AnswerOK(t)'
    BY <2>1 DEF AnswerOK, Waiting, Pending, Reply, BeforeCommit
  <2>3. DecisionOK(t)'
    BY <2>1 DEF DecisionOK
  <2> QED BY <1>2, <2>2, <2>3
<1>3. CASE u # t
  <2>1. \A k \in Key : Shard[k] \in Held(u) => rows'[k] = rows[k]
    <3>1. Held(u) \cap Held(t) = {}
      BY <1>3 DEF Held
    <3> QED BY <3>1, CommitFacts
  <2>2. peak \in Nat /\ peak' \in Nat /\ peak <= peak'
    <3>1. peak \in Nat /\ peak' = peak
      BY CommitFacts, PgGcraAssumption DEF Inv, TypeOK
    <3> QED BY <3>1
  <2> QED BY <1>1, <1>3, <2>1, <2>2, CallUndisturbed DEF OthersKept
<1> QED BY <1>2, <1>3

\* A bucket whose time moves on and whose row says the same thing there has only drained.
LEMMA AgesFact ==
  ASSUME Inv, NEW k \in Key,
         ledger'[Shard[k]].observed \in Nat, ledger[Shard[k]].observed <= ledger'[Shard[k]].observed,
         ledger'[Shard[k]].observed <= peak,
         Left(rows'[k].tat, ledger'[Shard[k]].observed * Policy[k].quota)
           = Left(rows[k].tat, ledger'[Shard[k]].observed * Policy[k].quota)
  PROVE  Shared!Ages(k)
<1> DEFINE n == ledger'[Shard[k]].observed
<1>1. n \in ledger[Shard[k]].observed..peak
  BY RowFacts
<1>2. Debt(k)' = Left(rows'[k].tat, n * Policy[k].quota)
  BY DEF Debt, Left
<1>3. Shared!Drained(k, n) = Left(rows[k].tat, n * Policy[k].quota)
  BY DrainedFact
<1>4. Debt(k)' = Shared!Drained(k, n)
  BY <1>2, <1>3
<1> QED BY <1>1, <1>4 DEF Shared!Ages

\* The commit is the instant an admission charges, or a cleanup forgets drained rows.
LEMMA CommitRefines ==
  ASSUME Inv, CallsInv, NEW t \in Session, ServerCommit(t)
  PROVE  Shared!Next
<1> DEFINE D == DOMAIN work[t]
<1> DEFINE n(k) == ledger'[Shard[k]].observed
<1>1. OthersKept(t) /\ AnswerOK(t) /\ DecisionOK(t)
  BY CommitCalls DEF CallsInv
<1>2. /\ pc[t] = "committing" /\ UNCHANGED <<clock, peak, op, reply>>
      /\ pc'[t] = IF Waiting(t) THEN "committed" ELSE "idle"
      /\ \A k \in Key : rows'[k] = IF k \in D THEN work[t][k] ELSE rows[k]
      /\ \A k \in D : k \in Key /\ Shard[k] \in Held(t)
  BY CommitFacts
<1>3. \A k \in Key : /\ n(k) \in Nat /\ ledger[Shard[k]].observed <= n(k) /\ n(k) <= peak
                     /\ Shard[k] \in Held(t) => n(k) = books[t][Shard[k]].observed
  BY CommitFacts, ShardFacts
<1>4. reply[t] \in {Pending, Reply("unknown", 0, 0)} /\ (Waiting(t) <=> reply[t].outcome = "pending")
  BY <1>1, <1>2 DEF AnswerOK, Waiting, Pending, Reply
<1>5. \A k \in Key \ D : Shared!Ages(k)
  <2> SUFFICES ASSUME NEW k \in Key \ D PROVE Shared!Ages(k)
    OBVIOUS
  <2>1. rows'[k] = rows[k]
    BY <1>2
  <2> QED BY <1>3, <2>1, AgesFact
<1>6. CASE IsCheck(op[t])
  <2> DEFINE c == op[t].checks
  <2>1. Held(t) = ShardsOf(c) /\ D = KeysOf(c)
    BY <1>1, <1>2, <1>6 DEF DecisionOK, ChargeOK
  <2>2. PICK at \in 0..peak :
          /\ \A s \in Held(t) : books[t][s].observed = at
          /\ \A j \in DOMAIN c : /\ work[t][c[j].key].tat = FilledTo(c[j], at)
                                 /\ FilledTo(c[j], at) <= TopAt(c[j].key, at)
    BY <1>1, <1>2, <1>6 DEF DecisionOK, ChargeOK
  <2>3. \A k \in D : n(k) = at
    BY <1>2, <1>3, <2>2
  <2>4. ASSUME NEW j \in DOMAIN c, NEW k, k = c[j].key
        PROVE  Shared!Fits(c[j], at) /\ Debt(k)' = Shared!Filled(c[j], at) /\ k \in D
    <3>1. k \in D /\ k \in Key /\ c[j].cost \in Nat
      <4>1. op[t] \in Operation \cup {NoOperation}
        BY DEF Inv, Shape
      <4> QED BY <2>1, <2>4, <4>1, ChecksFacts DEF KeysOf
    <3>2. n(k) = at /\ at \in Nat /\ ledger[Shard[k]].observed <= at
      BY <1>3, <2>3, <3>1
    <3> DEFINE x == FilledTo(c[j], at)
    <3> DEFINE a == at * Policy[k].quota
    <3> DEFINE b == c[j].cost * Policy[k].period
    <3>3. /\ a \in Nat /\ x \in Nat
          /\ Shared!Filled(c[j], at) = x - a
          /\ Shared!Fits(c[j], at) <=> x <= TopAt(k, at)
      BY <2>4, <3>1, <3>2, FilledFact
    <3>4. rows'[k].tat = x
      BY <1>2, <2>2, <2>4, <3>1
    <3>5. Debt(k)' = Left(x, a)
      <4>1. Debt(k)' = Left(rows'[k].tat, n(k) * Policy[k].quota)
        BY DEF Debt, Left
      <4> QED BY <3>2, <3>4, <4>1
    <3>6. x >= a
      <4>1. rows[k].tat \in Nat /\ b \in Nat /\ x = AtLeast(rows[k].tat, a) + b
        BY <2>4, <3>1, RowFacts DEF FilledTo
      <4> HIDE DEF x, a, b
      <4> QED BY <3>3, <4>1 DEF AtLeast
    <3>7. Left(x, a) = x - a
      <4> HIDE DEF x, a
      <4> QED BY <3>3, <3>6 DEF Left
    <3> QED BY <2>2, <2>4, <3>1, <3>3, <3>5, <3>7
  <2>5. CallStatus(t) = "open" /\ CallStatus(t)' = (IF Waiting(t) THEN "charged" ELSE "idle")
    BY <1>2, <1>4, <1>6 DEF CallStatus, IsCheck, Pending, Reply, Waiting
  <2>6. Told(t) = reply[t] /\ Told(t)' = reply[t]
    BY <1>2, <1>6 DEF Told, IsCheck
  <2>7. reply[t].outcome \in {"pending", "unknown"}
    BY <1>4 DEF Pending, Reply
  <2>8. \A k \in D : k \in Key /\ n(k) \in ledger[Shard[k]].observed..peak
    BY <1>2, <1>3, RowFacts
  <2>9. {c[j].key : j \in DOMAIN c} = D
    BY <2>1 DEF KeysOf
  <2> HIDE DEF c, D
  <2>10. [v \in Session |-> op[v].checks][t] = c
    BY DEF c
  <2>11. [v \in Session |-> op'[v].checks] = [v \in Session |-> op[v].checks]
    BY <1>2
  <2> DEFINE time == [k \in Key |-> ledger[Shard[k]].observed]
  <2> DEFINE debt == [k \in Key |-> Debt(k)]
  <2>12. \A k \in D : time'[k] = at /\ time'[k] \in time[k]..peak
    BY <2>3, <2>8
  <2>13. \A j \in DOMAIN c :
           /\ Shared!Fits(c[j], time'[c[j].key])
           /\ debt'[c[j].key] = Shared!Filled(c[j], time'[c[j].key])
    <3> SUFFICES ASSUME NEW j \in DOMAIN c
                 PROVE  /\ Shared!Fits(c[j], time'[c[j].key])
                        /\ debt'[c[j].key] = Shared!Filled(c[j], time'[c[j].key])
      OBVIOUS
    <3>1. PICK k : k = c[j].key
      OBVIOUS
    <3>2. Shared!Fits(c[j], at) /\ Debt(k)' = Shared!Filled(c[j], at) /\ k \in D
      BY <2>4, <3>1
    <3>3. time'[k] = at /\ k \in Key
      BY <2>8, <2>12, <3>2
    <3>4. debt'[k] = Debt(k)'
      BY <3>3
    <3> HIDE DEF time, debt
    <3> QED BY <3>1, <3>2, <3>3, <3>4
  <2>14. /\ [v \in Session |-> CallStatus(v)][t] = "open"
         /\ Shared!Waiting(t) <=> Waiting(t)
         /\ Shared!Waiting(t) \/ [v \in Session |-> Told(v)][t].outcome = "unknown"
         /\ [v \in Session |-> CallStatus(v)]'[t] = (IF Shared!Waiting(t) THEN "charged" ELSE "idle")
         /\ [v \in Session |-> Told(v)]'[t] = [v \in Session |-> Told(v)][t]
    BY <1>4, <2>5, <2>6, <2>7 DEF Shared!Waiting, Told
  <2> DEFINE call == [v \in Session |-> op[v].checks]
  <2> DEFINE status == [v \in Session |-> CallStatus(v)]
  <2> DEFINE told == [v \in Session |-> Told(v)]
  <2> DEFINE keys == {call[t][j].key : j \in DOMAIN call[t]}
  <2>15. Shared!Charge(t) <=>
           /\ status[t] = "open"
           /\ Shared!Waiting(t) \/ told[t].outcome = "unknown"
           /\ status'[t] = (IF Shared!Waiting(t) THEN "charged" ELSE "idle")
           /\ told'[t] = told[t]
           /\ UNCHANGED <<clock, peak, call>>
           /\ \A k, h \in keys : time'[k] = time'[h]
           /\ \A k \in keys : time'[k] \in time[k]..peak
           /\ \A j \in DOMAIN call[t] :
                /\ Shared!Fits(call[t][j], time'[call[t][j].key])
                /\ debt'[call[t][j].key] = Shared!Filled(call[t][j], time'[call[t][j].key])
           /\ \A k \in Key \ keys : Shared!Ages(k)
    BY DEF Shared!Charge, Told
  <2>16. keys = D /\ call[t] = c /\ call' = call
    BY <2>9, <2>10, <2>11
  <2> HIDE DEF time, debt, call, status, told, keys
  <2>17. Shared!Charge(t)
    BY <1>2, <1>5, <2>12, <2>13, <2>14, <2>15, <2>16 DEF status, told
  <2> QED BY <1>1, <2>17, ClientStep
<1>7. CASE ~IsCheck(op[t])
  <2>1. \A k \in D : work[t][k] = NoRow /\ rows[k].tat <= books[t][Shard[k]].observed * Policy[k].quota
    BY <1>1, <1>2, <1>7 DEF DecisionOK, ForgetOK
  <2>2. ASSUME NEW k \in D PROVE Shared!Ages(k)
    <3>1. k \in Key /\ rows'[k].tat = 0 /\ rows[k].tat <= n(k) * Policy[k].quota
      BY <1>2, <1>3, <2>1 DEF NoRow
    <3> DEFINE a == n(k) * Policy[k].quota
    <3>2. a \in Nat /\ rows[k].tat \in Nat
      BY <1>3, <3>1, RowFacts
    <3>3. Left(rows'[k].tat, a) = Left(rows[k].tat, a)
      <4> HIDE DEF a
      <4>1. rows[k].tat <= a
        BY <3>1 DEF a
      <4> QED BY <3>1, <3>2, <4>1 DEF Left
    <3> QED BY <1>3, <3>1, <3>3, AgesFact
  <2>3. CallStatus(t)' = CallStatus(t) /\ Told(t)' = Told(t)
    BY <1>2, <1>7 DEF CallStatus, Told, IsCheck, Reply
  <2>4. \A u \in Session : CallStatus(u)' = CallStatus(u) /\ Told(u)' = Told(u)
    BY <1>1, <2>3, OthersSeen
  <2>5. /\ [v \in Session |-> CallStatus(v)'] = [v \in Session |-> CallStatus(v)]
        /\ [v \in Session |-> Told(v)'] = [v \in Session |-> Told(v)]
        /\ [v \in Session |-> op'[v].checks] = [v \in Session |-> op[v].checks]
    BY <1>2, <2>4
  <2>6. \A k \in Key : Shared!Ages(k)
    BY <1>5, <2>2
  <2>7. Shared!Age
    BY <1>2, <2>5, <2>6 DEF Shared!Age, Told
  <2> QED BY <2>7 DEF Shared!Next
<1> QED BY <1>6, <1>7

\* SetClock maps to a step of the abstract specification or to a stutter.
LEMMA SetClockRefines ==
  ASSUME Inv, CallsInv, SetClock
  PROVE  CallsInv' /\ Shared!Next
<1>1. /\ peak' = Max({peak, clock'}) /\ UNCHANGED <<rows, ledger, holder, pc, op, wanted, work, books, reply>>
  BY DEF SetClock
<1>2. peak \in Nat /\ peak' \in Nat /\ peak <= peak'
  <2>1. peak \in Nat /\ clock' \in Nat
    BY PgGcraAssumption DEF Inv, TypeOK, SetClock
  <2>2. IsFiniteSet({peak, clock'})
    <3>1. IsFiniteSet({peak})
      BY FS_Singleton
    <3>2. {peak, clock'} = {peak} \cup {clock'}
      OBVIOUS
    <3> QED BY <3>1, <3>2, FS_AddElement
  <2>3. peak' \in {peak, clock'} /\ \A y \in {peak, clock'} : y <= peak'
    BY <1>1, <2>1, <2>2, MaxOfFinite
  <2> QED BY <2>1, <2>3
<1>3. \A u \in Session : Held(u)' = Held(u)
  BY <1>1 DEF Held
<1>4. \A u \in Session : AnswerOK(u)' /\ DecisionOK(u)'
  BY <1>1, <1>2, <1>3, CallUndisturbed
<1>5. \A u \in Session : CallStatus(u)' = CallStatus(u) /\ Told(u)' = Told(u)
  BY <1>1 DEF CallStatus, Told, IsCheck, Waiting, Pending, Reply
<1>6. /\ [v \in Session |-> CallStatus(v)'] = [v \in Session |-> CallStatus(v)]
      /\ [v \in Session |-> Told(v)'] = [v \in Session |-> Told(v)]
      /\ [v \in Session |-> op'[v].checks] = [v \in Session |-> op[v].checks]
  BY <1>1, <1>5
<1>7. Shared!ReadClock
  BY <1>1, <1>6, SameBuckets DEF Shared!ReadClock, Told, Max, Shared!Max
<1> QED BY <1>4, <1>7 DEF CallsInv, Shared!Next

\* Initial states map to initial states.
LEMMA InitRefines ==
  ASSUME Init
  PROVE  CallsInv /\ Shared!Init
<1>1. \A t \in Session : pc[t] = "idle" /\ reply[t] = Reply("none", 0, 0) /\ ~IsCheck(op[t])
  BY DEF Init, IsCheck
<1>2. CallsInv
  <2>1. \A t \in Session : AnswerOK(t) /\ DecisionOK(t)
    BY <1>1 DEF AnswerOK, DecisionOK, Reply, BeforeCommit
  <2> QED BY <2>1 DEF CallsInv
<1>3. \A t \in Session : CallStatus(t) = "idle" /\ Told(t).outcome = "none"
  BY <1>1 DEF CallStatus, Told, Reply
<1>4. [t \in Session |-> CallStatus(t)] = [t \in Session |-> "idle"]
  BY <1>3
<1>5. \A t \in Session : ~Shared!Waiting(t)
  BY <1>3 DEF Shared!Waiting, Told
<1>6. \A k \in Key : ledger[Shard[k]].observed = 0 /\ Debt(k) = 0
  <2> SUFFICES ASSUME NEW k \in Key PROVE ledger[Shard[k]].observed = 0 /\ Debt(k) = 0
    OBVIOUS
  <2>1. ledger[Shard[k]].observed = 0 /\ rows[k].tat = 0
    BY ShardFacts DEF Init, NoRow
  <2>2. 0 * Policy[k].quota = 0
    BY ShardFacts DEF GcraPolicy
  <2> QED BY <2>1, <2>2 DEF Debt
<1>7. [k \in Key |-> Debt(k)] = [k \in Key |-> 0] /\ [k \in Key |-> ledger[Shard[k]].observed] = [k \in Key |-> 0]
  BY <1>6
<1>8. peak = clock
  BY DEF Init
<1> QED BY <1>2, <1>4, <1>5, <1>7, <1>8 DEF Shared!Init

----------------------------------------------------------------------------
(* Deciding                                                                *)

\* A check fits at an instant, in the terms of the stored arrival times.
FitsAt(c, at) == FilledTo(c, at) <= TopAt(c.key, at)

\* How far a check that does not fit goes beyond the ceiling.
OverAt(c, at) == FilledTo(c, at) - TopAt(c.key, at)

\* Where a transaction stands when it decides: every shard of its batch is locked.
LEMMA DecideFacts ==
  ASSUME Inv, CallsInv, NEW t \in Session, Decide(t)
  PROVE  /\ pc[t] = "locking" /\ reply[t] = Pending /\ IsCheck(op[t])
         /\ UNCHANGED <<rows, ledger, clock, peak>> /\ UNCHANGED <<holder, op, wanted>>
         /\ Held(t) = ShardsOf(op[t].checks) /\ Distinct(op[t].checks)
         /\ Clamped(t) \in 0..peak
         /\ DOMAIN op[t].checks = 1..Len(op[t].checks) /\ Len(op[t].checks) \in Nat
         /\ \A j \in DOMAIN op[t].checks :
              LET c == op[t].checks[j]
              IN  /\ c.key \in Key /\ c.cost \in Nat
                  /\ Shard[c.key] \in Held(t) /\ ledger[Shard[c.key]].observed <= Clamped(t)
<1>1. /\ UNCHANGED <<rows, ledger, clock, peak>> /\ UNCHANGED <<holder, op, wanted>>
      /\ pc[t] = "locking" /\ wanted[t] = {} /\ reply[t] = Pending
  BY DEF Decide, Waiting
<1>2. IsCheck(op[t]) /\ Held(t) = ShardsOf(op[t].checks) /\ Distinct(op[t].checks)
  <2>1. LocksOK(t) /\ DecisionOK(t)
    BY Typed DEF CallsInv
  <2> QED BY <1>1, <2>1 DEF LocksOK, DecisionOK
<1>3. op[t] \in Operation \cup {NoOperation}
  BY DEF Inv, Shape
<1>4. ASSUME NEW j \in DOMAIN op[t].checks
      PROVE  LET c == op[t].checks[j]
             IN  /\ c.key \in Key /\ c.cost \in Nat
                 /\ Shard[c.key] \in Held(t) /\ ledger[Shard[c.key]].observed <= Clamped(t)
  <2> DEFINE c == op[t].checks[j]
  <2>1. c.key \in Key /\ c.cost \in Nat
    BY <1>3, ChecksFacts
  <2>2. Shard[c.key] \in Held(t)
    BY <1>2 DEF ShardsOf
  <2> QED BY <2>1, <2>2, HeldFacts
<1>5. DOMAIN op[t].checks = 1..Len(op[t].checks) /\ Len(op[t].checks) \in Nat
  BY <1>3, ChecksFacts
<1> QED BY <1>1, <1>2, <1>4, <1>5, HeldFacts

\* The three ways to decide: an arithmetic error, a denial of the first check that does
\* not fit or has no room, or writes for every check at one instant.
LEMMA DecideCases ==
  ASSUME Inv, CallsInv, NEW t \in Session, Decide(t)
  PROVE  LET c == op[t].checks
             now == Clamped(t)
         IN  \/ /\ reply'[t] = Reply("out_of_range", 0, 0) /\ UNCHANGED <<pc, work, books>>
             \/ /\ UNCHANGED <<pc, work, books>>
                /\ \E j \in DOMAIN c :
                    /\ \A h \in 1..(j - 1) : FitsAt(c[h], now)
                    /\ \/ /\ reply'[t] = Reply(IF c[j].mode = "Shadow" THEN "shadow_denied" ELSE "quota_denied",
                                               j, DivCeil(OverAt(c[j], now), Policy[c[j].key].quota))
                          /\ OverAt(c[j], now) > 0
                       \/ /\ reply'[t] = Reply("capacity_denied", j, 0)
                          /\ ~Exists(c[j].key) /\ FitsAt(c[j], now)
             \/ /\ pc'[t] = "ready" /\ reply' = reply
                /\ DOMAIN work'[t] = KeysOf(c)
                /\ \A s \in Held(t) : books'[t][s].observed = now
                /\ \A j \in DOMAIN c : work'[t][c[j].key].tat = FilledTo(c[j], now) /\ FitsAt(c[j], now)
<1> DEFINE c == op[t].checks
<1> DEFINE keys == {c[j].key : j \in DOMAIN c}
<1> DEFINE now == Clamped(t)
<1> DEFINE result == [j \in DOMAIN c |-> Evaluated(c[j], now)]
<1> DEFINE denied == {j \in DOMAIN c : result[j].kind = "denied" \/ NoRoom(t, j)}
<1> DEFINE first == Min(denied)
<1> DEFINE denial == IF result[first].kind # "denied" THEN Reply("capacity_denied", first, 0)
                     ELSE Reply(IF c[first].mode = "Shadow" THEN "shadow_denied"
                                ELSE "quota_denied", first, result[first].retry)
<1> DEFINE indexOf(k) == CHOOSE j \in DOMAIN c : c[j].key = k
<1> DEFINE corrupt == \E k \in keys : Corrupt(k)
<1> DEFINE overflow == \E j \in DOMAIN c : result[j].kind = "overflow"
<1> DEFINE unstorable == \E j \in DOMAIN c : result[j].allowance.expires > BigintMax
<1> DEFINE failed == corrupt \/ overflow \/ (denied = {} /\ unstorable)
<1> DEFINE failure == Reply(IF corrupt THEN "storage_invariant" ELSE "out_of_range", 0, 0)
<1> DEFINE rowOf(k) == [tat |-> result[indexOf(k)].allowance.tat,
                        expires |-> result[indexOf(k)].allowance.expires]
<1>1. \/ /\ failed \/ denied # {}
         /\ reply' = [reply EXCEPT ![t] = IF failed THEN failure ELSE denial]
         /\ UNCHANGED <<pc, work, books>>
      \/ /\ ~failed /\ denied = {}
         /\ work' = [work EXCEPT ![t] = [k \in keys |-> rowOf(k)]]
         /\ \E count : books' = [books EXCEPT ![t] =
              [s \in Held(t) |-> [count |-> count[s], observed |-> now]]]
         /\ pc' = [pc EXCEPT ![t] = "ready"]
         /\ reply' = reply
  <2>1. CASE /\ failed \/ denied # {}
             /\ reply' = [reply EXCEPT ![t] = IF failed THEN failure ELSE denial]
             /\ UNCHANGED <<pc, work, books>>
    BY <2>1
  <2>2. CASE /\ ~failed /\ denied = {}
             /\ work' = [work EXCEPT ![t] = [k \in keys |-> rowOf(k)]]
             /\ books' = [books EXCEPT ![t] =
                  [s \in Held(t) |->
                      [count |-> ledger[s].count + InShard({k \in keys : ~Exists(k)}, s),
                       observed |-> now]]]
             /\ pc' = [pc EXCEPT ![t] = "ready"]
             /\ reply' = reply
    <3> DEFINE count == [s \in Held(t) |-> ledger[s].count + InShard({k \in keys : ~Exists(k)}, s)]
    <3> HIDE DEF failed, denied, keys, now, rowOf
    <3>1. [s \in Held(t) |-> [count |-> ledger[s].count + InShard({k \in keys : ~Exists(k)}, s),
                              observed |-> now]]
            = [s \in Held(t) |-> [count |-> count[s], observed |-> now]]
      OBVIOUS
    <3> HIDE DEF count
    <3> QED BY <2>2, <3>1
  <2> QED BY <2>1, <2>2 DEF Decide
<1>2. \A j \in DOMAIN c :
        /\ result[j].kind \in {"allowed", "denied", "overflow"}
        /\ result[j].kind = "allowed" => result[j].allowance.tat = FilledTo(c[j], now) /\ FitsAt(c[j], now)
        /\ result[j].kind = "denied" =>
             /\ OverAt(c[j], now) > 0
             /\ result[j].retry = DivCeil(OverAt(c[j], now), Policy[c[j].key].quota)
  <2> SUFFICES ASSUME NEW j \in DOMAIN c, NEW r, r = Evaluated(c[j], now)
               PROVE  /\ r.kind \in {"allowed", "denied", "overflow"}
                      /\ r.kind = "allowed" => r.allowance.tat = FilledTo(c[j], now) /\ FitsAt(c[j], now)
                      /\ r.kind = "denied" =>
                           /\ OverAt(c[j], now) > 0
                           /\ r.retry = DivCeil(OverAt(c[j], now), Policy[c[j].key].quota)
    OBVIOUS
  <2> QED BY EvaluatedFilled DEF FitsAt, OverAt
<1>3. ~corrupt
  <2> SUFFICES ASSUME NEW k \in keys PROVE ~Corrupt(k)
    OBVIOUS
  <2>1. k \in Key
    BY DecideFacts
  <2> QED BY <2>1 DEF Corrupt, Exists, Inv, RowsSound, SoundRow
<1>4. DOMAIN reply = Session /\ DOMAIN work = Session /\ DOMAIN books = Session /\ pc \in [Session -> Phase]
  BY Typed
<1>5. DOMAIN c = 1..Len(c) /\ Len(c) \in Nat
  BY DecideFacts
<1>6. CASE /\ failed
           /\ reply' = [reply EXCEPT ![t] = IF failed THEN failure ELSE denial]
           /\ UNCHANGED <<pc, work, books>>
  <2>1. failure = Reply("out_of_range", 0, 0)
    BY <1>3
  <2> HIDE DEF failed, failure, denial
  <2>2. reply'[t] = failure
    BY <1>4, <1>6
  <2> QED BY <1>6, <2>1, <2>2
<1>7. CASE /\ ~failed /\ denied # {}
           /\ reply' = [reply EXCEPT ![t] = IF failed THEN failure ELSE denial]
           /\ UNCHANGED <<pc, work, books>>
  <2>1. \A j \in DOMAIN c : result[j].kind # "overflow"
    BY <1>7
  <2>2. denied \in SUBSET Nat /\ \A j \in denied : j \in DOMAIN c /\ (result[j].kind = "denied" \/ NoRoom(t, j))
    BY <1>5
  <2>3. \A j \in DOMAIN c : j \notin denied => result[j].kind # "denied"
    OBVIOUS
  <2>4. reply'[t] = denial
    <3> HIDE DEF failed, failure, denial
    <3> QED BY <1>4, <1>7
  <2> HIDE DEF denied
  <2>5. first \in denied /\ \A y \in denied : first <= y
    BY <1>7, <2>2, MinOfNaturals
  <2>6. first \in DOMAIN c /\ first \in Nat
    BY <2>2, <2>5
  <2> HIDE DEF result, first, failed, failure, c, now
  <2>7. \A h \in 1..(first - 1) : FitsAt(c[h], now)
    <3> SUFFICES ASSUME NEW h \in 1..(first - 1) PROVE FitsAt(c[h], now)
      OBVIOUS
    <3>1. h \in DOMAIN c /\ h \notin denied
      BY <1>5, <2>2, <2>5, <2>6
    <3> QED BY <1>2, <2>1, <2>3, <3>1
  <2>8. CASE result[first].kind = "denied"
    <3>1. reply'[t] = Reply(IF c[first].mode = "Shadow" THEN "shadow_denied" ELSE "quota_denied",
                            first, DivCeil(OverAt(c[first], now), Policy[c[first].key].quota))
      BY <1>2, <2>4, <2>6, <2>8
    <3>2. OverAt(c[first], now) > 0
      BY <1>2, <2>6, <2>8
    <3> QED BY <1>7, <2>6, <2>7, <3>1, <3>2 DEF c, now
  <2>9. CASE result[first].kind # "denied"
    <3>1. reply'[t] = Reply("capacity_denied", first, 0)
      BY <2>4, <2>9
    <3>2. FitsAt(c[first], now)
      BY <1>2, <2>1, <2>6, <2>9
    <3>3. NoRoom(t, first)
      BY <2>2, <2>5, <2>9
    <3>4. ~Exists(c[first].key)
      BY <3>3 DEF NoRoom, c
    <3> QED BY <1>7, <2>6, <2>7, <3>1, <3>2, <3>4 DEF c, now
  <2> QED BY <2>8, <2>9
<1>8. CASE /\ ~failed /\ denied = {}
           /\ work' = [work EXCEPT ![t] = [k \in keys |-> rowOf(k)]]
           /\ \E count : books' = [books EXCEPT ![t] =
                [s \in Held(t) |-> [count |-> count[s], observed |-> now]]]
           /\ pc' = [pc EXCEPT ![t] = "ready"]
           /\ reply' = reply
  <2>1. \A j \in DOMAIN c : result[j].kind = "allowed"
    BY <1>2, <1>8
  <2>2. \A j \in DOMAIN c : indexOf(c[j].key) = j /\ c[j].key \in keys
    BY DecideFacts DEF Distinct
  <2>3. /\ work'[t] = [k \in keys |-> rowOf(k)] /\ pc'[t] = "ready"
        /\ \A s \in Held(t) : books'[t][s].observed = now
    <3> HIDE DEF failed, denied, keys, now, rowOf
    <3> QED BY <1>4, <1>8
  <2>4. \A j \in DOMAIN c : rowOf(c[j].key).tat = FilledTo(c[j], now) /\ FitsAt(c[j], now)
    <3> SUFFICES ASSUME NEW j \in DOMAIN c
                 PROVE  rowOf(c[j].key).tat = FilledTo(c[j], now) /\ FitsAt(c[j], now)
      OBVIOUS
    <3>1. rowOf(c[j].key).tat = result[j].allowance.tat
      BY <2>2
    <3> HIDE DEF rowOf, result
    <3> QED BY <1>2, <2>1, <3>1
  <2>5. DOMAIN work'[t] = KeysOf(c)
    BY <2>3 DEF KeysOf
  <2> HIDE DEF rowOf, keys, indexOf
  <2>6. \A j \in DOMAIN c : work'[t][c[j].key].tat = FilledTo(c[j], now) /\ FitsAt(c[j], now)
    BY <2>2, <2>3, <2>4
  <2> QED BY <1>8, <2>3, <2>5, <2>6
<1> QED
  <2> HIDE DEF failed, denied, keys, now, rowOf, denial, failure, c
  <2> QED BY <1>1, <1>6, <1>7, <1>8 DEF now, c

\* The instant of a decision is that of the abstract call.
LEMMA InstantFact ==
  ASSUME Inv, CallsInv, NEW t \in Session, Decide(t)
  PROVE  Shared!Instant(op[t].checks) = Clamped(t)
<1> DEFINE c == op[t].checks
<1> DEFINE A == {ledger[s].observed : s \in Held(t)}
<1> DEFINE B == {[k \in Key |-> ledger[Shard[k]].observed][c[j].key] : j \in DOMAIN c}
<1>1. A = B
  <2>1. Held(t) = {Shard[c[j].key] : j \in DOMAIN c} /\ \A j \in DOMAIN c : c[j].key \in Key
    BY DecideFacts DEF ShardsOf
  <2> HIDE DEF c
  <2>2. \A j \in DOMAIN c : [k \in Key |-> ledger[Shard[k]].observed][c[j].key] = ledger[Shard[c[j].key]].observed
    BY <2>1
  <2>3. \A s \in Held(t) : \E j \in DOMAIN c : s = Shard[c[j].key]
    BY <2>1
  <2>4. \A j \in DOMAIN c : Shard[c[j].key] \in Held(t)
    BY <2>1
  <2>5. ASSUME NEW x \in A PROVE x \in B
    <3>1. PICK s \in Held(t) : x = ledger[s].observed
      OBVIOUS
    <3>2. PICK j \in DOMAIN c : s = Shard[c[j].key]
      BY <2>3
    <3> QED BY <2>2, <3>1, <3>2
  <2>6. ASSUME NEW x \in B PROVE x \in A
    <3>1. PICK j \in DOMAIN c : x = [k \in Key |-> ledger[Shard[k]].observed][c[j].key]
      OBVIOUS
    <3> QED BY <2>2, <2>4, <3>1
  <2> QED BY <2>5, <2>6
<1>2. Shared!Instant(c) = Shared!Max({clock} \cup B) /\ Clamped(t) = Max({clock} \cup A)
  BY DEF Shared!Instant, Clamped
<1> HIDE DEF A, B
<1> QED BY <1>1, <1>2 DEF Max, Shared!Max

\* DivCeil of the excess is the least whole delay that drains it.
LEMMA LeastDelay ==
  ASSUME NEW over \in Nat, over > 0, NEW q \in Nat \ {0}, NEW d, d = DivCeil(over, q)
  PROVE  /\ d \in Nat /\ d > 0 /\ d * q \in Nat /\ (d - 1) * q \in Nat
         /\ over <= d * q /\ over > (d - 1) * q
<1>1. d \in Nat /\ d > 0 /\ \A n \in Nat : d <= n <=> over <= n * q
  BY CeilingDivision DEF DivCeil
<1>2. d - 1 \in Nat /\ ~(d <= d - 1)
  BY <1>1
<1>3. d * q \in Nat /\ (d - 1) * q \in Nat
  BY <1>1, <1>2
<1> QED BY <1>1, <1>2, <1>3

\* A denial or an error ends the abstract call, and leaves the transaction to its rollback.
LEMMA RefusalRefines ==
  ASSUME Inv, CallsInv, NEW t \in Session, Decide(t), UNCHANGED <<pc, work, books>>,
         reply'[t].outcome \in {"out_of_range", "quota_denied", "shadow_denied", "capacity_denied"}
  PROVE  /\ CallsInv' /\ OthersKept(t)
         /\ CallStatus(t) = "open" /\ CallStatus(t)' = "idle"
         /\ Told(t).outcome = "pending" /\ Told(t)' = reply'[t]
<1>1. /\ pc[t] = "locking" /\ reply[t] = Pending /\ IsCheck(op[t]) /\ Distinct(op[t].checks)
      /\ UNCHANGED <<rows, ledger, clock, peak>> /\ op' = op
  BY DecideFacts
<1>2. OthersKept(t)
  BY StepKeepsOthers
<1>3. AnswerOK(t)'
  BY <1>1 DEF AnswerOK, Pending, Reply, BeforeCommit
<1>4. DecisionOK(t)'
  BY <1>1 DEF DecisionOK, Distinct
<1>5. CallStatus(t) = "open" /\ CallStatus(t)' = "idle"
  BY <1>1 DEF CallStatus, IsCheck, Waiting, Pending, Reply
<1>6. Told(t).outcome = "pending" /\ Told(t)' = reply'[t]
  BY <1>1 DEF Told, IsCheck, Pending, Reply
<1> QED BY <1>1, <1>2, <1>3, <1>4, <1>5, <1>6, CallsStep

\* Decide maps to a step of the abstract specification or to a stutter.
LEMMA DecideRefines ==
  ASSUME Inv, CallsInv, NEW t \in Session, Decide(t)
  PROVE  CallsInv' /\ [Shared!Next]_Shared!vars
<1> DEFINE c == op[t].checks
<1> DEFINE now == Clamped(t)
<1>1. /\ pc[t] = "locking" /\ reply[t] = Pending /\ IsCheck(op[t]) /\ Held(t) = ShardsOf(c)
      /\ UNCHANGED <<rows, ledger, clock, peak>> /\ holder' = holder /\ op' = op
      /\ now \in 0..peak /\ peak \in Nat
  BY DecideFacts, HeldFacts
<1>2. OthersKept(t)
  BY StepKeepsOthers
<1>3. Shared!Instant(c) = now
  BY InstantFact
<1>4. ASSUME NEW j \in DOMAIN c
      PROVE  /\ c[j].key \in Key
             /\ Shared!Fits(c[j], now) <=> FitsAt(c[j], now)
             /\ Shared!Filled(c[j], now) \in Int /\ Shared!Brim(c[j].key) \in Int
             /\ OverAt(c[j], now) \in Int
             /\ Shared!Filled(c[j], now) = Shared!Brim(c[j].key) + OverAt(c[j], now)
  <2>1. c[j].key \in Key /\ c[j].cost \in Nat /\ now \in Nat /\ ledger[Shard[c[j].key]].observed <= now
    BY <1>1, DecideFacts
  <2> DEFINE x == FilledTo(c[j], now)
  <2> DEFINE y == TopAt(c[j].key, now)
  <2> DEFINE a == now * Policy[c[j].key].quota
  <2>2. /\ a \in Nat /\ x \in Nat /\ y \in Nat
        /\ Shared!Filled(c[j], now) = x - a
        /\ Shared!Brim(c[j].key) = y - a
        /\ Shared!Fits(c[j], now) <=> x <= y
    <3> DEFINE d == c[j]
    <3>1. d.key \in Key /\ d.cost \in Nat /\ now \in Nat /\ ledger[Shard[d.key]].observed <= now
      BY <2>1
    <3> HIDE DEF d, now
    <3>2. /\ now * Policy[d.key].quota \in Nat /\ FilledTo(d, now) \in Nat /\ TopAt(d.key, now) \in Nat
          /\ Shared!Filled(d, now) = FilledTo(d, now) - now * Policy[d.key].quota
          /\ Shared!Brim(d.key) = TopAt(d.key, now) - now * Policy[d.key].quota
          /\ Shared!Fits(d, now) <=> FilledTo(d, now) <= TopAt(d.key, now)
      BY <3>1, FilledFact
    <3> QED BY <3>2 DEF d
  <2>3. OverAt(c[j], now) = x - y /\ (FitsAt(c[j], now) <=> x <= y)
    BY DEF OverAt, FitsAt
  <2> HIDE DEF x, y, a
  <2> QED BY <2>1, <2>2, <2>3
<1>5. DOMAIN c = 1..Len(c) /\ Len(c) \in Nat
  BY DecideFacts
<1>6. CASE reply'[t] = Reply("out_of_range", 0, 0) /\ UNCHANGED <<pc, work, books>>
  <2>1. reply'[t].outcome = "out_of_range"
    BY <1>6 DEF Reply
  <2>2. /\ CallsInv'
        /\ CallStatus(t) = "open" /\ CallStatus(t)' = "idle"
        /\ Told(t).outcome = "pending" /\ Told(t)' = reply'[t]
    BY <1>6, <2>1, RefusalRefines
  <2>3. Shared!Fail(t)
    BY <1>1, <2>1, <2>2, SameBuckets DEF Shared!Fail, Shared!Answer, Shared!Waiting, Told
  <2> QED BY <1>2, <2>2, <2>3, ClientStep
<1>7. ASSUME NEW j \in DOMAIN c, \A h \in 1..(j - 1) : FitsAt(c[h], now), UNCHANGED <<pc, work, books>>,
             reply'[t] = Reply(IF c[j].mode = "Shadow" THEN "shadow_denied" ELSE "quota_denied",
                               j, DivCeil(OverAt(c[j], now), Policy[c[j].key].quota)),
             OverAt(c[j], now) > 0
      PROVE  CallsInv' /\ Shared!Next
  <2> DEFINE q == Policy[c[j].key].quota
  <2> DEFINE wait == DivCeil(OverAt(c[j], now), q)
  <2>1. /\ reply'[t].outcome = (IF c[j].mode = "Shadow" THEN "shadow_denied" ELSE "quota_denied")
        /\ reply'[t].index = j /\ reply'[t].retry = wait
    BY <1>7 DEF Reply
  <2>2. /\ reply'[t].outcome \in {"quota_denied", "shadow_denied"}
        /\ (reply'[t].outcome = "shadow_denied") <=> (c[j].mode = "Shadow")
    BY <2>1
  <2>3. /\ CallsInv'
        /\ CallStatus(t) = "open" /\ CallStatus(t)' = "idle"
        /\ Told(t).outcome = "pending" /\ Told(t)' = reply'[t]
    BY <1>7, <2>2, RefusalRefines
  <2>4. /\ wait \in Nat /\ wait > 0 /\ wait * q \in Nat /\ (wait - 1) * q \in Nat
        /\ OverAt(c[j], now) <= wait * q /\ OverAt(c[j], now) > (wait - 1) * q
    <3>1. q \in Nat \ {0}
      BY <1>4, RowFacts
    <3>2. OverAt(c[j], now) \in Nat
      BY <1>4, <1>7
    <3>3. OverAt(c[j], now) > 0
      BY <1>7
    <3> QED BY <3>1, <3>2, <3>3, LeastDelay
  <2>5. /\ Shared!Filled(c[j], now) <= Shared!Brim(c[j].key) + wait * q
        /\ Shared!Filled(c[j], now) > Shared!Brim(c[j].key) + (wait - 1) * q
    <3> HIDE DEF wait, q, c, now
    <3> QED BY <1>4, <2>4
  <2>6. \A h \in 1..(j - 1) : Shared!Fits(c[h], now)
    <3> SUFFICES ASSUME NEW h \in 1..(j - 1) PROVE Shared!Fits(c[h], now)
      OBVIOUS
    <3>1. h \in DOMAIN c
      BY <1>5
    <3> QED BY <1>4, <1>7, <3>1
  <2> DEFINE call == [v \in Session |-> op[v].checks]
  <2> DEFINE told == [v \in Session |-> Told(v)]
  <2> DEFINE slack(w) == Shared!Brim(call[t][told'[t].index].key)
                           + w * Policy[call[t][told'[t].index].key].quota
  <2>7. Shared!Deny(t) <=>
          /\ CallStatus(t) = "open"
          /\ Shared!Answer(t, {"quota_denied", "shadow_denied"})
          /\ told'[t].index \in DOMAIN call[t]
          /\ \A h \in 1..(told'[t].index - 1) : Shared!Fits(call[t][h], Shared!Instant(call[t]))
          /\ told'[t].retry > 0
          /\ Shared!Filled(call[t][told'[t].index], Shared!Instant(call[t])) <= slack(told'[t].retry)
          /\ Shared!Filled(call[t][told'[t].index], Shared!Instant(call[t])) > slack(told'[t].retry - 1)
          /\ (told'[t].outcome = "shadow_denied") <=> (call[t][told'[t].index].mode = "Shadow")
          /\ CallStatus(t)' = "idle"
    BY DEF Shared!Deny, Told
  <2>8. Shared!Answer(t, {"quota_denied", "shadow_denied"})
    BY <1>1, <2>2, <2>3, SameBuckets DEF Shared!Answer, Shared!Waiting, Told
  <2>9. told'[t] = reply'[t] /\ call[t] = c
    BY <2>3
  <2> HIDE DEF call, told, wait, c, now
  <2>10. Shared!Deny(t)
    BY <1>3, <2>1, <2>2, <2>3, <2>4, <2>5, <2>6, <2>7, <2>8, <2>9
  <2> QED BY <1>2, <2>3, <2>10, ClientStep
<1>8. ASSUME NEW j \in DOMAIN c, \A h \in 1..(j - 1) : FitsAt(c[h], now), UNCHANGED <<pc, work, books>>,
             reply'[t] = Reply("capacity_denied", j, 0), ~Exists(c[j].key), FitsAt(c[j], now)
      PROVE  CallsInv' /\ Shared!Next
  <2>1. reply'[t].outcome = "capacity_denied" /\ reply'[t].index = j
    BY <1>8 DEF Reply
  <2>2. /\ CallsInv'
        /\ CallStatus(t) = "open" /\ CallStatus(t)' = "idle"
        /\ Told(t).outcome = "pending" /\ Told(t)' = reply'[t]
    BY <1>8, <2>1, RefusalRefines
  <2>3. \A h \in 1..j : Shared!Fits(c[h], now)
    <3> SUFFICES ASSUME NEW h \in 1..j PROVE Shared!Fits(c[h], now)
      OBVIOUS
    <3>1. h \in DOMAIN c /\ (h = j \/ h \in 1..(j - 1))
      BY <1>5
    <3> QED BY <1>4, <1>8, <3>1
  <2>4. c[j].key \in Key /\ Debt(c[j].key) = 0
    <3> DEFINE k == c[j].key
    <3>1. k \in Key /\ rows[k].tat = 0
      BY <1>4, <1>8 DEF Exists, NoRow
    <3> DEFINE a == ledger[Shard[k]].observed * Policy[k].quota
    <3>2. a \in Nat /\ Debt(k) = Left(rows[k].tat, a)
      BY <3>1, RowFacts
    <3>3. Left(rows[k].tat, a) = 0
      <4> HIDE DEF a
      <4> QED BY <3>1, <3>2 DEF Left
    <3> QED BY <3>1, <3>2, <3>3
  <2> DEFINE call == [v \in Session |-> op[v].checks]
  <2> DEFINE told == [v \in Session |-> Told(v)]
  <2> DEFINE debt == [k \in Key |-> Debt(k)]
  <2>5. Shared!Refuse(t) <=>
          /\ CallStatus(t) = "open" /\ Shared!Answer(t, {"capacity_denied"})
          /\ told'[t].index \in DOMAIN call[t]
          /\ debt[call[t][told'[t].index].key] = 0
          /\ \A h \in 1..told'[t].index : Shared!Fits(call[t][h], Shared!Instant(call[t]))
          /\ CallStatus(t)' = "idle"
    BY DEF Shared!Refuse, Told
  <2>6. Shared!Answer(t, {"capacity_denied"})
    BY <1>1, <2>1, <2>2, SameBuckets DEF Shared!Answer, Shared!Waiting, Told
  <2>7. told'[t] = reply'[t] /\ call[t] = c /\ debt[c[j].key] = 0
    BY <2>2, <2>4
  <2> HIDE DEF call, told, debt, c, now
  <2>8. Shared!Refuse(t)
    BY <1>3, <2>1, <2>2, <2>3, <2>5, <2>6, <2>7
  <2> QED BY <1>2, <2>2, <2>8, ClientStep
<1>9. CASE /\ pc'[t] = "ready" /\ reply' = reply
           /\ DOMAIN work'[t] = KeysOf(c)
           /\ \A s \in Held(t) : books'[t][s].observed = now
           /\ \A j \in DOMAIN c : work'[t][c[j].key].tat = FilledTo(c[j], now) /\ FitsAt(c[j], now)
  <2>1. /\ Held(t)' = Held(t) /\ ShardsOf(op[t].checks)' = ShardsOf(c) /\ KeysOf(op[t].checks)' = KeysOf(c)
        /\ op'[t].checks = c /\ \A d, at : FilledTo(d, at)' = FilledTo(d, at)
    BY <1>1 DEF Held, ShardsOf, KeysOf, FilledTo
  <2>2. PICK at \in 0..peak : at = now
    BY <1>1
  <2>3. /\ \A s \in Held(t) : books'[t][s].observed = at
        /\ \A j \in DOMAIN c : /\ work'[t][c[j].key].tat = FilledTo(c[j], at)
                               /\ FilledTo(c[j], at) <= TopAt(c[j].key, at)
    BY <1>9, <2>2 DEF FitsAt
  <2>4. ChargeOK(t)'
    <3> HIDE DEF now, c
    <3> QED BY <1>1, <1>9, <2>1, <2>3 DEF ChargeOK, FilledTo, TopAt
  <2>5. DecisionOK(t)'
    BY <1>1, <1>9, <2>4 DEF DecisionOK, IsCheck
  <2>6. pc[t] \in BeforeCommit /\ pc'[t] = "ready" /\ "ready" \in BeforeCommit
    BY <1>1, <1>9 DEF BeforeCommit
  <2> QED BY <1>1, <1>2, <1>9, <2>5, <2>6, PhaseRefines
<1> QED
  <2>1. \/ reply'[t] = Reply("out_of_range", 0, 0) /\ UNCHANGED <<pc, work, books>>
        \/ /\ UNCHANGED <<pc, work, books>>
           /\ \E j \in DOMAIN c :
               /\ \A h \in 1..(j - 1) : FitsAt(c[h], now)
               /\ \/ /\ reply'[t] = Reply(IF c[j].mode = "Shadow" THEN "shadow_denied" ELSE "quota_denied",
                                          j, DivCeil(OverAt(c[j], now), Policy[c[j].key].quota))
                     /\ OverAt(c[j], now) > 0
                  \/ /\ reply'[t] = Reply("capacity_denied", j, 0)
                     /\ ~Exists(c[j].key) /\ FitsAt(c[j], now)
        \/ /\ pc'[t] = "ready" /\ reply' = reply
           /\ DOMAIN work'[t] = KeysOf(c)
           /\ \A s \in Held(t) : books'[t][s].observed = now
           /\ \A j \in DOMAIN c : work'[t][c[j].key].tat = FilledTo(c[j], now) /\ FitsAt(c[j], now)
    BY DecideCases
  <2> HIDE DEF c, now
  <2> QED BY <1>6, <1>7, <1>8, <1>9, <2>1

\* Every step maps to a step of the abstract specification or to a stutter.
LEMMA NextRefines ==
  ASSUME Inv, CallsInv, [Next]_vars
  PROVE  CallsInv' /\ [Shared!Next]_Shared!vars
<1>1. CASE SetClock
  BY <1>1, SetClockRefines
<1>2. ASSUME NEW t \in Session, Begin(t)
      PROVE  CallsInv' /\ [Shared!Next]_Shared!vars
  BY <1>2, BeginRefines
<1>3. ASSUME NEW t \in Session, LockShard(t) \/ Probe(t) \/ SendCommit(t)
      PROVE  CallsInv' /\ [Shared!Next]_Shared!vars
  BY <1>3, QuietStepsRefine
<1>4. ASSUME NEW t \in Session, Decide(t)
      PROVE  CallsInv' /\ [Shared!Next]_Shared!vars
  BY <1>4, DecideRefines
<1>5. ASSUME NEW t \in Session, DeleteExpired(t)
      PROVE  CallsInv' /\ [Shared!Next]_Shared!vars
  BY <1>5, DeleteRefines
<1>6. ASSUME NEW t \in Session, ServerCommit(t)
      PROVE  CallsInv' /\ [Shared!Next]_Shared!vars
  BY <1>6, CommitCalls, CommitRefines
<1>7. ASSUME NEW t \in Session,
             Confirm(t) \/ LoseConfirmation(t) \/ FailCommit(t) \/ Abandon(t) \/ Rollback(t)
      PROVE  CallsInv' /\ [Shared!Next]_Shared!vars
  BY <1>7, EndingRefines
<1>8. CASE UNCHANGED vars
  <2>1. UNCHANGED <<rows, ledger, clock, peak, holder, pc, op, wanted, work, books, reply>>
    BY <1>8 DEF vars
  <2>2. \A u \in Session : AnswerOK(u)' /\ DecisionOK(u)'
    <3>1. peak \in Nat /\ peak' \in Nat /\ peak <= peak'
      BY <2>1, PgGcraAssumption DEF Inv, TypeOK
    <3>2. \A u \in Session : Held(u)' = Held(u)
      BY <2>1 DEF Held
    <3> QED BY <2>1, <3>1, <3>2, CallUndisturbed
  <2>3. \A u \in Session :
          op'[u].checks = op[u].checks /\ CallStatus(u)' = CallStatus(u) /\ Told(u)' = Told(u)
    BY <2>1 DEF CallStatus, Told, IsCheck, Waiting, Pending, Reply
  <2> QED BY <2>1, <2>2, <2>3, StutterRefines DEF CallsInv
<1> QED BY <1>1, <1>2, <1>3, <1>4, <1>5, <1>6, <1>7, <1>8 DEF Next

\* ImplementsSharedBucket: whatever transactions overlap, fail, time out or are abandoned
\* and however the database clock jumps, the replicas see buckets that drain in a time
\* that never goes back, are charged whole calls at one instant, at most once and within
\* the burst; denials state the least sufficient delay and answers tell the truth.
THEOREM Refinement == Spec => ImplementsSharedBucket
<1>1. Init => CallsInv /\ Shared!Init
  BY InitRefines
<1>2. Inv /\ CallsInv /\ [Next]_vars => CallsInv' /\ [Shared!Next]_Shared!vars
  BY NextRefines
<1> QED BY <1>1, <1>2, Invariance, PTL DEF Spec, ImplementsSharedBucket, Shared!Spec

=============================================================================
